---- MODULE Spec2Model ----
(***************************************************************************)
(* A model of trader/auto_trader.go: the decision cycle, the per-action    *)
(* handlers, the position caches, the drawdown monitor and the             *)
(* consecutive-loss circuit breaker of AutoTrader.                         *)
(*                                                                         *)
(* Units.  The code computes in float64; the model computes exactly, in    *)
(* integers:                                                               *)
(*   price      1e-4 USDT ("pip"); 100 USDT is 1000000                     *)
(*   quantity   1e-3 contract                                              *)
(*   time       minutes                                                    *)
(*   ROI%       an exact fraction in lowest terms, <<numerator, denom>>    *)
(* floatEpsilon (1e-6) is smaller than one unit of each of these, so it is *)
(* kept as half a unit: quantities are doubled (U) where the code adds or  *)
(* subtracts floatEpsilon, which orders exactly as the code does on        *)
(* integer-valued inputs.                                                  *)
(***************************************************************************)
EXTENDS Integers, Sequences, FiniteSets, TLC

\* ------------------------------------------------------------ arithmetic

Abs(x) == IF x < 0 THEN -x ELSE x

Max(a, b) == IF a >= b THEN a ELSE b

Min(a, b) == IF a <= b THEN a ELSE b

RECURSIVE Gcd(_, _)
Gcd(a, b) == IF b = 0 THEN a ELSE Gcd(b, a % b)

\* The fraction n/d (d > 0) in lowest terms.
Frac(n, d) ==
    LET g == Gcd(Abs(n), d)
    IN  IF n = 0 THEN <<0, 1>> ELSE <<n \div g, d \div g>>

FracLt(p, q) == p[1] * q[2] < q[1] * p[2]

FracLe(p, q) == p[1] * q[2] <= q[1] * p[2]

\* A quantity in half units, so that floatEpsilon can be added to it.
U(x) == 2 * x

\* Go maps: a function whose DOMAIN is the set of keys present.
EmptyMap == <<>>

Put(m, k, v) == [x \in (DOMAIN m) \cup {k} |-> IF x = k THEN v ELSE m[x]]

Del(m, k) == [x \in (DOMAIN m) \ {k} |-> m[x]]

Has(m, k) == k \in DOMAIN m

\* ------------------------------------------------------------- constants

minConfidence == 80

\* 1e-6, as half a unit (see Units).
floatEpsilon == 1

\* strings.ToUpper / strings.ToLower on the side strings.
ToUpper(s) ==
    CASE s = "long" -> "LONG"
      [] s = "short" -> "SHORT"
      [] OTHER -> s

ToLower(s) ==
    CASE s = "LONG" -> "long"
      [] s = "SHORT" -> "short"
      [] OTHER -> s

Symbols == {"BTCUSDT"}

Sides == {"long", "short"}

Keys == Symbols \X Sides

\* The order in which the adapter lists positions.
KeyOrder == <<<<"BTCUSDT", "long">>, <<"BTCUSDT", "short">>>>

positionKey(symbol, side) == <<symbol, ToLower(side)>>

\* ----------------------------------------------------------------- state

VARIABLES
    now,                \* wall clock, minutes
    price,              \* market: current/mark price per symbol
    positions,          \* venue: open positions, key -> [qty, entry, lev]
    positionMeta,       \* at.positionMeta
    stopLossCache,      \* at.stopLossCache
    takeProfitCache,    \* at.takeProfitCache
    peakPnLCache,       \* at.peakPnLCache
    consecutiveLosses,  \* at.consecutiveLosses
    stopUntil,          \* at.stopUntil
    calls,              \* per thread: the external calls of its cycle or tick
    lastOp              \* what the last step was and how it ended

evars == <<now, price, positions, positionMeta, stopLossCache, takeProfitCache,
           peakPnLCache, consecutiveLosses, stopUntil, calls, lastOp>>

vars_caches == <<positions, positionMeta, stopLossCache, takeProfitCache,
                 peakPnLCache, consecutiveLosses, stopUntil>>

\* The caches and the venue as one record, for the handlers to work on;
\* calls: the external calls the handler has issued so far; pending: the
\* stop-loss update the handler has validated and not yet placed; held: the
\* mutexes the executing goroutine holds.
Cur ==
    [positions |-> positions, meta |-> positionMeta, sl |-> stopLossCache,
     tp |-> takeProfitCache, peak |-> peakPnLCache,
     losses |-> consecutiveLosses, stopUntil |-> stopUntil,
     calls |-> <<>>, err |-> [kind |-> "nil", a |-> 0, b |-> 0], held |-> {},
     pending |-> [symbol |-> "", side |-> "", qty |-> 0, stop |-> 0]]

Commit(e) ==
    /\ positions' = e.positions
    /\ positionMeta' = e.meta
    /\ stopLossCache' = e.sl
    /\ takeProfitCache' = e.tp
    /\ peakPnLCache' = e.peak
    /\ consecutiveLosses' = e.losses
    /\ stopUntil' = e.stopUntil

\* ------------------------------------------------- errors, calls, decisions

\* A Go error: nil, or what fmt.Errorf was given (kind: which message; a, b:
\* the two values the message cites).
Nil == [kind |-> "nil", a |-> 0, b |-> 0]

Err(kind, a, b) == [kind |-> kind, a |-> a, b |-> b]

Fail(e, err) == [e EXCEPT !.err = err]

Ok(e) == [e EXCEPT !.err = Nil]

\* One call to a collaborator: the exchange adapter (at.trader.*), the
\* market-data provider (market.Get) or the decision source; held: the
\* mutexes held while it is made.
Call(e, op, symbol, side, qty, px) ==
    [e EXCEPT !.calls = Append(@, [op |-> op, symbol |-> symbol, side |-> side,
                                   qty |-> qty, px |-> px, held |-> e.held])]

\* at.positionMetaMutex and at.peakPnLCacheMutex: Lock, and the Unlock the
\* accessors defer or call.  The accessors that only read (getStopLoss,
\* getTakeProfit, getPeakPnL, getPositionQuantity, ensureStopLossTightening)
\* lock around the read alone and are written as the read.
Lock(e, m) == [e EXCEPT !.held = @ \cup {m}]

\* A variant that leaves the mutex locked.
Unlock_Skipped(e, m) == e

Unlock(e, m) == [e EXCEPT !.held = @ \ {m}]

storeStopLoss(e, symbol, side, stopLoss) ==
    Unlock([Lock(e, "positionMetaMutex") EXCEPT
               !.sl = Put(@, positionKey(symbol, side), stopLoss)],
           "positionMetaMutex")

storeTakeProfit(e, symbol, side, takeProfit) ==
    Unlock([Lock(e, "positionMetaMutex") EXCEPT
               !.tp = Put(@, positionKey(symbol, side), takeProfit)],
           "positionMetaMutex")

\* decision.Decision, with Go's zero values.
Dec(action, symbol) ==
    [symbol |-> symbol, action |-> action, leverage |-> 0,
     position_size_usd |-> 0, stop_loss |-> 0, take_profit |-> 0,
     risk_usd |-> 0, new_stop_loss |-> 0, new_take_profit |-> 0,
     close_percentage |-> 0, confidence |-> 0, auto |-> FALSE]

NoKey == <<"", "">>

SetMin(S) == CHOOSE x \in S : \A y \in S : x <= y

\* The loop "for _, pos := range positions { if symbol == decision.Symbol &&
\* posAmt != 0 { targetPosition = pos; break } }": the first listed position
\* of the symbol.
findTargetPosition(ps, symbol) ==
    LET idx == {i \in 1..Len(KeyOrder) :
                    KeyOrder[i][1] = symbol /\ Has(ps, KeyOrder[i])}
    IN  IF idx = {} THEN NoKey ELSE KeyOrder[SetMin(idx)]

\* ------------------------------------------------------ stop-loss ratchet

\* A variant: the side is compared without strings.ToUpper, so the "LONG" the
\* handler passes never takes the long branch.
ensureStopLossTightening_CaseSensitive(sl, symbol, side, newStop) ==
    LET key == positionKey(symbol, side)
    IN  IF ~Has(sl, key) THEN Nil
        ELSE IF side = "long"
             THEN IF U(newStop) + floatEpsilon < U(sl[key])
                  THEN Err("ratchet", sl[key], newStop) ELSE Nil
             ELSE IF U(newStop) - floatEpsilon > U(sl[key])
                  THEN Err("ratchet", sl[key], newStop) ELSE Nil

ensureStopLossTightening(sl, symbol, side, newStop) ==
    LET key == positionKey(symbol, side)
    IN  IF ~Has(sl, key) THEN Nil
        ELSE LET previous == sl[key]
             IN  IF ToUpper(side) = "LONG"
                 THEN IF U(newStop) + floatEpsilon < U(previous)
                      THEN Err("ratchet", previous, newStop) ELSE Nil
                 ELSE IF U(newStop) - floatEpsilon > U(previous)
                      THEN Err("ratchet", previous, newStop) ELSE Nil

NoPending == [symbol |-> "", side |-> "", qty |-> 0, stop |-> 0]

\* A variant that caches the stop whether or not the venue took it.
finishUpdateStopLoss_CacheAnyway(e, p, o) ==
    LET e3 == Call(e, "CancelStopOrders", p.symbol, "", 0, 0)
        e4 == storeStopLoss(Call(e3, "SetStopLoss", p.symbol, p.side, p.qty, p.stop),
                            p.symbol, p.side, p.stop)
    IN  IF "SetStopLoss" \in o.fail
        THEN Fail([e4 EXCEPT !.pending = NoPending], Err("set_stop_loss", 0, 0))
        ELSE Ok([e4 EXCEPT !.pending = NoPending])

\* Lines 1314-1330 of executeUpdateStopLossWithRecord: the old stop orders are
\* cancelled (a failure is only logged), the new stop is placed and, if the
\* venue took it, cached.
finishUpdateStopLoss(e, p, o) ==
    LET e3 == Call(e, "CancelStopOrders", p.symbol, "", 0, 0)
        e4 == Call(e3, "SetStopLoss", p.symbol, p.side, p.qty, p.stop)
    IN  IF "SetStopLoss" \in o.fail
        THEN Fail([e4 EXCEPT !.pending = NoPending], Err("set_stop_loss", 0, 0))
        ELSE Ok(storeStopLoss([e4 EXCEPT !.pending = NoPending],
                              p.symbol, p.side, p.stop))

\* o: what the collaborators answer during this handler (o.fail: the calls
\* that return an error; o.md: the market data; o.bal: the balance) and
\* o.defer: the goroutine is descheduled between the ratchet check (line
\* 1310) and the venue calls (line 1315), so the handler's remainder,
\* finishUpdateStopLoss, runs as a later step.
executeUpdateStopLossWithRecord(e, d, o) ==
    LET e1 == Call(e, "market.Get", d.symbol, "", 0, 0)
        e2 == Call(e1, "GetPositions", "", "", 0, 0)
        target == findTargetPosition(e.positions, d.symbol)
        positionSide == ToUpper(target[2])
        quantity == Abs(e.positions[target].qty)
        CurrentPrice == price[d.symbol]
        guard == ensureStopLossTightening(e.sl, d.symbol, positionSide, d.new_stop_loss)
        p == [symbol |-> d.symbol, side |-> positionSide, qty |-> quantity,
              stop |-> d.new_stop_loss]
    IN  IF "market.Get" \in o.fail THEN Fail(e1, Err("market", 0, 0))
        ELSE IF "GetPositions" \in o.fail THEN Fail(e2, Err("get_positions", 0, 0))
        ELSE IF target = NoKey THEN Fail(e2, Err("no_position", 0, 0))
        ELSE IF positionSide = "LONG" /\ d.new_stop_loss >= CurrentPrice
             THEN Fail(e2, Err("stop_direction", CurrentPrice, d.new_stop_loss))
        ELSE IF positionSide = "SHORT" /\ d.new_stop_loss <= CurrentPrice
             THEN Fail(e2, Err("stop_direction", CurrentPrice, d.new_stop_loss))
        ELSE IF guard # Nil THEN Fail(e2, guard)
        ELSE IF o.defer THEN Ok([e2 EXCEPT !.pending = p])
        ELSE finishUpdateStopLoss(e2, p, o)

\* A variant that lets a take-profit at the current price through.
executeUpdateTakeProfitWithRecord_AtPrice(e, d, o) ==
    LET e1 == Call(e, "market.Get", d.symbol, "", 0, 0)
        e2 == Call(e1, "GetPositions", "", "", 0, 0)
        target == findTargetPosition(e.positions, d.symbol)
        positionSide == ToUpper(target[2])
        quantity == Abs(e.positions[target].qty)
        CurrentPrice == price[d.symbol]
        e3 == Call(e2, "CancelStopOrders", d.symbol, "", 0, 0)
        e4 == Call(e3, "SetTakeProfit", d.symbol, positionSide, quantity, d.new_take_profit)
    IN  IF "market.Get" \in o.fail THEN Fail(e1, Err("market", 0, 0))
        ELSE IF "GetPositions" \in o.fail THEN Fail(e2, Err("get_positions", 0, 0))
        ELSE IF target = NoKey THEN Fail(e2, Err("no_position", 0, 0))
        ELSE IF positionSide = "LONG" /\ d.new_take_profit < CurrentPrice
             THEN Fail(e2, Err("tp_direction", CurrentPrice, d.new_take_profit))
        ELSE IF positionSide = "SHORT" /\ d.new_take_profit > CurrentPrice
             THEN Fail(e2, Err("tp_direction", CurrentPrice, d.new_take_profit))
        ELSE IF "SetTakeProfit" \in o.fail THEN Fail(e4, Err("set_take_profit", 0, 0))
        ELSE Ok(storeTakeProfit(e4, d.symbol, positionSide, d.new_take_profit))

executeUpdateTakeProfitWithRecord(e, d, o) ==
    LET e1 == Call(e, "market.Get", d.symbol, "", 0, 0)
        e2 == Call(e1, "GetPositions", "", "", 0, 0)
        target == findTargetPosition(e.positions, d.symbol)
        positionSide == ToUpper(target[2])
        quantity == Abs(e.positions[target].qty)
        CurrentPrice == price[d.symbol]
        e3 == Call(e2, "CancelStopOrders", d.symbol, "", 0, 0)
        e4 == Call(e3, "SetTakeProfit", d.symbol, positionSide, quantity, d.new_take_profit)
    IN  IF "market.Get" \in o.fail THEN Fail(e1, Err("market", 0, 0))
        ELSE IF "GetPositions" \in o.fail THEN Fail(e2, Err("get_positions", 0, 0))
        ELSE IF target = NoKey THEN Fail(e2, Err("no_position", 0, 0))
        ELSE IF positionSide = "LONG" /\ d.new_take_profit <= CurrentPrice
             THEN Fail(e2, Err("tp_direction", CurrentPrice, d.new_take_profit))
        ELSE IF positionSide = "SHORT" /\ d.new_take_profit >= CurrentPrice
             THEN Fail(e2, Err("tp_direction", CurrentPrice, d.new_take_profit))
        ELSE IF "SetTakeProfit" \in o.fail THEN Fail(e4, Err("set_take_profit", 0, 0))
        ELSE Ok(storeTakeProfit(e4, d.symbol, positionSide, d.new_take_profit))

\* ------------------------------------------------------- circuit breaker

\* A variant that pauses one loss early.
pauseDuration_OneLossEarly(n) ==
    CASE n = 1 -> 45
      [] n = 2 -> 24 * 60
      [] n >= 3 -> 72 * 60
      [] OTHER -> 0

\* The pause after the n-th consecutive loss, in minutes (0: none).
pauseDuration(n) ==
    CASE n = 2 -> 45
      [] n = 3 -> 24 * 60
      [] n >= 4 -> 72 * 60
      [] OTHER -> 0

updateConsecutiveLosses(e, pnl) ==
    \* pnl is in 1e-7 USDT (pips times 1e-3 contracts): 1e-6 is 10 of them
    IF Abs(pnl) * floatEpsilon < 10 THEN e
    ELSE IF pnl < 0
         THEN LET n == e.losses + 1
              IN  IF pauseDuration(n) > 0
                  THEN [e EXCEPT !.losses = n, !.stopUntil = now + pauseDuration(n)]
                  ELSE [e EXCEPT !.losses = n]
         ELSE [e EXCEPT !.losses = 0]

handleRealizedPnL(e, symbol, side, closedQuantity, closePrice) ==
    LET key == positionKey(symbol, side)
    IN  IF closedQuantity <= 0 THEN e
        ELSE IF ~Has(e.meta, key) THEN e
        ELSE LET entryPrice == e.meta[key].EntryPrice
                 remaining == e.meta[key].Quantity - closedQuantity
                 e0 == Lock(e, "positionMetaMutex")
                 e1 == Unlock(IF U(remaining) < floatEpsilon
                              THEN [e0 EXCEPT !.meta = Del(@, key), !.sl = Del(@, key),
                                              !.tp = Del(@, key)]
                              ELSE [e0 EXCEPT !.meta[key].Quantity = remaining],
                              "positionMetaMutex")
                 pnl == IF ToLower(side) = "long"
                        THEN (closePrice - entryPrice) * closedQuantity
                        ELSE (entryPrice - closePrice) * closedQuantity
             IN  updateConsecutiveLosses(e1, pnl)

\* ----------------------------------------------------- position caches

storePositionMeta(e, symbol, side, entryPrice, quantity) ==
    IF quantity <= 0 THEN e
    ELSE Unlock([Lock(e, "positionMetaMutex") EXCEPT
                    !.meta = Put(@, positionKey(symbol, side),
                                 [Side |-> ToLower(side), EntryPrice |-> entryPrice,
                                  Quantity |-> quantity])],
                "positionMetaMutex")

getPositionQuantity(e, symbol, side) ==
    IF Has(e.meta, positionKey(symbol, side))
    THEN e.meta[positionKey(symbol, side)].Quantity ELSE 0

UpdatePeakPnL_Overwrite(e, symbol, side, currentPnLPct) ==
    [e EXCEPT !.peak = Put(@, positionKey(symbol, side), currentPnLPct)]

UpdatePeakPnL(e, symbol, side, currentPnLPct) ==
    LET key == positionKey(symbol, side)
        e0 == Lock(e, "peakPnLCacheMutex")
    IN  Unlock(IF Has(e.peak, key)
               THEN IF FracLt(e.peak[key], currentPnLPct)
                    THEN [e0 EXCEPT !.peak = Put(@, key, currentPnLPct)]
                    ELSE e0
               ELSE [e0 EXCEPT !.peak = Put(@, key, currentPnLPct)],
               "peakPnLCacheMutex")

ClearPeakPnLCache(e, symbol, side) ==
    Unlock([Lock(e, "peakPnLCacheMutex") EXCEPT
               !.peak = Del(@, positionKey(symbol, side))],
           "peakPnLCacheMutex")

\* ------------------------------------------------------------ the venue

\* CloseLong / CloseShort of the adapter (qty 0: the whole position): the
\* position shrinks by qty and disappears when nothing is left.
VenueClose(ps, key, qty) ==
    IF qty = 0 \/ qty >= ps[key].qty THEN Del(ps, key)
    ELSE [ps EXCEPT ![key].qty = @ - qty]

\* OpenLong / OpenShort of the adapter: a new position at the current price,
\* or more of the one that is there.
VenueOpen(ps, key, qty, lev) ==
    IF Has(ps, key) THEN [ps EXCEPT ![key].qty = @ + qty]
    ELSE Put(ps, key, [qty |-> qty, entry |-> price[key[1]], lev |-> lev])

\* --------------------------------------------------------------- closes

executeCloseWithRecord(e, d, o, side) ==
    LET e1 == Call(e, "market.Get", d.symbol, "", 0, 0)
        closedQty == getPositionQuantity(e, d.symbol, side)
        key == positionKey(d.symbol, side)
        e2 == Call(e1, IF side = "long" THEN "CloseLong" ELSE "CloseShort",
                   d.symbol, side, 0, 0)
        e3 == [e2 EXCEPT !.positions = VenueClose(@, key, 0)]
    IN  IF "market.Get" \in o.fail THEN Fail(e1, Err("market", 0, 0))
        ELSE IF "Close" \in o.fail \/ ~Has(e.positions, key)
             THEN Fail(e2, Err("close", 0, 0))
        ELSE Ok(handleRealizedPnL(e3, d.symbol, side, closedQty, price[d.symbol]))

executeCloseLongWithRecord(e, d, o) == executeCloseWithRecord(e, d, o, "long")

executeCloseShortWithRecord(e, d, o) == executeCloseWithRecord(e, d, o, "short")

emergencyClosePosition(e, symbol, side, o) ==
    LET normalizedSide == ToLower(side)
        closedQty == getPositionQuantity(e, symbol, normalizedSide)
        e1 == Call(e, "market.Get", symbol, "", 0, 0)
        closePrice == IF "market.Get" \in o.fail THEN 0 ELSE price[symbol]
        key == positionKey(symbol, side)
        e2 == Call(e1, IF side = "long" THEN "CloseLong" ELSE "CloseShort",
                   symbol, side, 0, 0)
        e3 == [e2 EXCEPT !.positions = VenueClose(@, key, 0)]
    IN  IF side \notin {"long", "short"} THEN Fail(e1, Err("unknown_side", 0, 0))
        ELSE IF "Close" \in o.fail \/ ~Has(e.positions, key)
             THEN Fail(e2, Err("close", 0, 0))
        ELSE IF closePrice > 0 /\ closedQty > 0
             THEN Ok(handleRealizedPnL(e3, symbol, normalizedSide, closedQty, closePrice))
        ELSE Ok(e3)

\* ------------------------------------------------ protective stop engine

\* breakeven, lock30, lock50 and floor are percentages times 10.
roiProfileFor(leverage) ==
    CASE leverage <= 2 ->
           [breakeven |-> 60, lock30 |-> 80, lock50 |-> 120, drawdown |-> 40, floor |-> 7]
      [] leverage > 2 /\ leverage <= 5 ->
           [breakeven |-> 30, lock30 |-> 60, lock50 |-> 100, drawdown |-> 35, floor |-> 20]
      [] leverage > 5 /\ leverage <= 10 ->
           [breakeven |-> 20, lock30 |-> 40, lock50 |-> 70, drawdown |-> 30, floor |-> 30]
      [] OTHER ->
           [breakeven |-> 15, lock30 |-> 30, lock50 |-> 50, drawdown |-> 25, floor |-> 35]

\* max(markPrice*0.0002, atr*0.05), at least 0.01.
autoProtectionBuffer(markPrice, atr) ==
    LET b0 == (markPrice * 2) \div 10000
        b1 == IF atr > 0 THEN Max(b0, (atr * 5) \div 100) ELSE b0
    IN  IF b1 < 100 THEN 100 ELSE b1

\* A variant that takes every candidate.
pickTighterStop_Latest(side, current, hasCurrent, candidate) == <<candidate, TRUE>>

\* <<stop, exists>>
pickTighterStop(side, current, hasCurrent, candidate) ==
    IF ~hasCurrent THEN <<candidate, TRUE>>
    ELSE IF ToLower(side) = "long"
         THEN IF U(candidate) > U(current) + floatEpsilon
              THEN <<candidate, TRUE>> ELSE <<current, hasCurrent>>
         ELSE IF U(candidate) < U(current) - floatEpsilon
              THEN <<candidate, TRUE>> ELSE <<current, hasCurrent>>

positionRoiPct(side, entryPrice, markPrice, leverage) ==
    LET lev == IF leverage <= 0 THEN 1 ELSE leverage
    IN  IF ToLower(side) = "long"
        THEN Frac((markPrice - entryPrice) * lev * 100, entryPrice)
        ELSE Frac((entryPrice - markPrice) * lev * 100, entryPrice)

\* <<target, ok>>
atrStopCandidate(side, entryPrice, markPrice, gain, md) ==
    LET atr == md.mid.ATR14
        long == ToLower(side) = "long"
        t1 == entryPrice
        t2 == IF long THEN entryPrice + atr \div 2 ELSE entryPrice - atr \div 2
        t3 == IF long THEN markPrice - (5 * atr) \div 2 ELSE markPrice + (5 * atr) \div 2
        target == IF gain >= 2 * atr THEN t3
                  ELSE IF 2 * gain >= 3 * atr THEN t2 ELSE t1
        buffer == autoProtectionBuffer(markPrice, atr)
    IN  IF ~md.hasMid \/ md.mid.ATR14 <= 0 THEN <<0, FALSE>>
        ELSE IF gain <= 0 THEN <<0, FALSE>>
        ELSE IF gain < atr THEN <<0, FALSE>>
        ELSE IF long THEN <<Min(target, markPrice - buffer), TRUE>>
        ELSE IF ToLower(side) = "short" THEN <<Max(target, markPrice + buffer), TRUE>>
        ELSE <<target, TRUE>>

\* <<candidate, ok>>
roiStopCandidate(side, entryPrice, markPrice, leverage, roiPct, gain) ==
    LET profile == roiProfileFor(leverage)
        long == ToLower(side) = "long"
        c0 == entryPrice
        c1 == IF FracLe(<<profile.lock30, 10>>, roiPct)
              THEN (IF long THEN entryPrice + (gain * 3) \div 10
                            ELSE entryPrice - (gain * 3) \div 10)
              ELSE c0
        c2 == IF FracLe(<<profile.lock50, 10>>, roiPct)
              THEN (IF long THEN entryPrice + gain \div 2 ELSE entryPrice - gain \div 2)
              ELSE c1
        \* entryPrice * (floor/100) / leverage
        floorDist == (entryPrice * profile.floor) \div (1000 * leverage)
        c3 == IF profile.floor > 0
              THEN (IF long THEN Max(c2, entryPrice + floorDist)
                            ELSE Min(c2, entryPrice - floorDist))
              ELSE c2
        buffer == autoProtectionBuffer(markPrice, gain)
    IN  IF FracLt(roiPct, <<profile.breakeven, 10>>) THEN <<0, FALSE>>
        ELSE IF gain <= 0 THEN <<0, FALSE>>
        ELSE IF long /\ c3 > markPrice - buffer THEN <<markPrice - buffer, TRUE>>
        ELSE IF ToLower(side) = "short" /\ c3 < markPrice + buffer
             THEN <<markPrice + buffer, TRUE>>
        ELSE <<c3, TRUE>>

floatingGain(side, entryPrice, markPrice) ==
    IF ToLower(side) = "long"
    THEN (IF markPrice > entryPrice THEN markPrice - entryPrice ELSE 0)
    ELSE (IF entryPrice > markPrice THEN entryPrice - markPrice ELSE 0)

\* The handler's error is logged, not returned.
dispatchAutoStopLoss(e, symbol, side, newStop, o) ==
    Ok(executeUpdateStopLossWithRecord(
           e, [Dec("update_stop_loss", symbol) EXCEPT !.new_stop_loss = newStop,
                                                       !.auto = TRUE], o))

\* "if candidate, ok := ...; ok { targetStop, targetExists =
\* pickTighterStop(side, targetStop, targetExists, candidate) }" on the pairs
\* t = <<targetStop, targetExists>> and c = <<candidate, ok>>.
tighterOf(side, t, c) ==
    IF c[2] THEN pickTighterStop(side, t[1], t[2], c[1]) ELSE t

\* Lines 2260-2276 on t = <<targetStop, targetExists>>: <<stop, dispatch>>.
dynamicDecide(side, markPrice, currentStop, hasStop, t) ==
    IF ~t[2] THEN <<0, FALSE>>
    ELSE IF hasStop /\ ToLower(side) = "long"
            /\ U(t[1]) <= U(currentStop) + floatEpsilon THEN <<0, FALSE>>
    ELSE IF hasStop /\ ToLower(side) = "short"
            /\ U(t[1]) >= U(currentStop) - floatEpsilon THEN <<0, FALSE>>
    ELSE IF hasStop /\ Abs(t[1] - currentStop) * 10000 < markPrice THEN <<0, FALSE>>
    ELSE <<t[1], TRUE>>

\* Lines 2247-2276: the stop applyDynamicProtection dispatches for the
\* position at key, <<stop, dispatch>>, from the cached stop it reads.
dynamicTarget(sl, key, pos, md) ==
    LET side == key[2]
        markPrice == pos.mark
        leverage == IF pos.lev > 0 THEN pos.lev ELSE 1
        gain == floatingGain(side, pos.entry, markPrice)
        hasStop == Has(sl, key)
        currentStop == IF hasStop THEN sl[key] ELSE 0
    IN  dynamicDecide(
            side, markPrice, currentStop, hasStop,
            tighterOf(side,
                      tighterOf(side, <<currentStop, hasStop>>,
                                atrStopCandidate(side, pos.entry, markPrice, gain, md)),
                      roiStopCandidate(side, pos.entry, markPrice, leverage,
                                       positionRoiPct(side, pos.entry, markPrice, leverage),
                                       gain)))

\* Line 2279, target being <<stop, dispatch>>.
dispatchTarget(e, symbol, side, target, o) ==
    IF ~target[2] THEN e ELSE dispatchAutoStopLoss(e, symbol, side, target[1], o)

applyDynamicProtection(e, key, pos, o) ==
    LET symbol == key[1]
        side == key[2]
        gain == floatingGain(side, pos.entry, pos.mark)
        e1 == Call(e, "market.Get", symbol, "", 0, 0)
    IN  IF U(Abs(pos.qty)) < floatEpsilon THEN e
        ELSE IF U(gain) <= floatEpsilon THEN e
        ELSE IF "market.Get" \in o.fail THEN e1
        ELSE dispatchTarget(e1, symbol, side, dynamicTarget(e.sl, key, pos, o.md), o)

\* GetPositions as a list: the keys present, in the adapter's order.
RECURSIVE listFrom(_, _)
listFrom(ps, i) ==
    IF i > Len(KeyOrder) THEN <<>>
    ELSE IF Has(ps, KeyOrder[i]) THEN <<KeyOrder[i]>> \o listFrom(ps, i + 1)
    ELSE listFrom(ps, i + 1)

GetPositions(ps) == listFrom(ps, 1)

\* ... and what it reports of each: the venue's position with the mark price
\* of the moment of the call.
Snapshot(ps) ==
    [k \in DOMAIN ps |->
        [qty |-> ps[k].qty, entry |-> ps[k].entry, lev |-> ps[k].lev,
         mark |-> price[k[1]]]]

RECURSIVE protectFrom(_, _, _, _, _)
protectFrom(e, snapshot, list, symbol, o) ==
    IF list = <<>> THEN e
    ELSE LET key == Head(list)
         IN  protectFrom(IF key[1] = symbol
                         THEN applyDynamicProtection(e, key, snapshot[key], o) ELSE e,
                         snapshot, Tail(list), symbol, o)

evaluateSymbolProtection(e, symbol, o) ==
    LET e1 == Call(e, "GetPositions", "", "", 0, 0)
    IN  IF "GetPositions" \in o.fail THEN e1
        ELSE protectFrom(e1, Snapshot(e.positions), GetPositions(e.positions), symbol, o)

\* ------------------------------------------------------ drawdown monitor

\* exists && peak > 0 && current < peak && peak >= breakeven &&
\* (peak-current)/peak*100 >= drawdown, on exact fractions.
drawdownTriggered(peakPnLPct, currentPnLPct, leverage) ==
    LET profile == roiProfileFor(leverage)
        pn == peakPnLPct[1]
        pd == peakPnLPct[2]
        cn == currentPnLPct[1]
        cd == currentPnLPct[2]
    IN  /\ pn > 0
        /\ FracLt(currentPnLPct, peakPnLPct)
        /\ FracLe(<<profile.breakeven, 10>>, peakPnLPct)
        /\ (pn * cd - cn * pd) * 100 >= profile.drawdown * pn * cd

\* Lines 2356-2367, closed being the engine after emergencyClosePosition.
afterEmergencyClose(closed, key, pos, o) ==
    IF closed.err = Nil THEN ClearPeakPnLCache(closed, key[1], key[2])
    ELSE applyDynamicProtection(Ok(closed), key, pos, o)

\* Lines 2348-2367, e being the engine after UpdatePeakPnL.
checkPeak_RatchetFirst(e, key, pos, o, currentPnLPct, leverage) ==
    IF drawdownTriggered(e.peak[key], currentPnLPct, leverage)
    THEN afterEmergencyClose(
             emergencyClosePosition(applyDynamicProtection(e, key, pos, o),
                                    key[1], key[2], o),
             key, pos, o)
    ELSE applyDynamicProtection(e, key, pos, o)

checkPeak(e, key, pos, o, currentPnLPct, leverage) ==
    IF drawdownTriggered(e.peak[key], currentPnLPct, leverage)
    THEN afterEmergencyClose(emergencyClosePosition(e, key[1], key[2], o), key, pos, o)
    ELSE applyDynamicProtection(e, key, pos, o)

\* Lines 2346-2367, leverage being the position's (10 when it has none).
checkRoi(e, key, pos, o, currentPnLPct, leverage) ==
    checkPeak(UpdatePeakPnL(e, key[1], key[2], currentPnLPct), key, pos, o,
              currentPnLPct, leverage)

\* The body of checkPositionDrawdown's loop for one listed position.
checkOnePosition(e, key, pos, o) ==
    IF U(Abs(pos.qty)) < floatEpsilon THEN e
    ELSE checkRoi(e, key, pos, o,
                  positionRoiPct(key[2], pos.entry, pos.mark,
                                 IF pos.lev > 0 THEN pos.lev ELSE 10),
                  IF pos.lev > 0 THEN pos.lev ELSE 10)

\* ---------------------------------------------------------- partial close

\* In 1e-3 contracts.
estimateStepSize(symbol) ==
    CASE symbol = "BTCUSDT" -> 1
      [] symbol = "ETHUSDT" -> 10
      [] OTHER -> 100

\* A variant: the quantity is rounded up to the next step.
roundQuantity_Up(symbol, qty100) ==
    ((qty100 + 100 * estimateStepSize(symbol) - 1) \div (100 * estimateStepSize(symbol)))
        * estimateStepSize(symbol)

\* math.Floor(qty/step + 1e-9) * step, of a quantity given in hundredths of
\* 1e-3 contract (the product of a quantity and a percentage).
roundQuantity(symbol, qty100) ==
    (qty100 \div (100 * estimateStepSize(symbol))) * estimateStepSize(symbol)

\* A variant that does not raise a quantity below one step.
partialCloseQuantity_NoLift(symbol, totalQuantity, ClosePercentage) ==
    roundQuantity(symbol, totalQuantity * ClosePercentage)

\* Lines 1439-1451: the quantity a partial close of ClosePercentage of
\* totalQuantity sends to the venue (0: the handler rejects the decision).
partialCloseQuantity(symbol, totalQuantity, ClosePercentage) ==
    LET minQty == estimateStepSize(symbol)
        requested100 == totalQuantity * ClosePercentage
        close100 == IF requested100 < 100 * minQty
                    THEN (IF U(totalQuantity) <= U(minQty) + floatEpsilon
                          THEN 100 * totalQuantity ELSE 100 * minQty)
                    ELSE requested100
    IN  roundQuantity(symbol, close100)

executePartialCloseWithRecord(e, d, o) ==
    LET e1 == Call(e, "market.Get", d.symbol, "", 0, 0)
        e2 == Call(e1, "GetPositions", "", "", 0, 0)
        target == findTargetPosition(e.positions, d.symbol)
        positionSide == ToUpper(target[2])
        totalQuantity == Abs(e.positions[target].qty)
        minQty == estimateStepSize(d.symbol)
        closeQuantity == partialCloseQuantity(d.symbol, totalQuantity, d.close_percentage)
        e3 == Call(e2, IF positionSide = "LONG" THEN "CloseLong" ELSE "CloseShort",
                   d.symbol, ToLower(positionSide), closeQuantity, 0)
        e4 == [e3 EXCEPT !.positions = VenueClose(@, target, closeQuantity)]
        e5 == handleRealizedPnL(e4, d.symbol, ToLower(positionSide), closeQuantity,
                                price[d.symbol])
    IN  IF d.close_percentage <= 0 \/ d.close_percentage > 100
        THEN Fail(e, Err("close_percentage", d.close_percentage, 0))
        ELSE IF "market.Get" \in o.fail THEN Fail(e1, Err("market", 0, 0))
        ELSE IF "GetPositions" \in o.fail THEN Fail(e2, Err("get_positions", 0, 0))
        ELSE IF target = NoKey THEN Fail(e2, Err("no_position", 0, 0))
        ELSE IF closeQuantity <= 0 THEN Fail(e2, Err("quantity_too_small", minQty, 0))
        ELSE IF "Close" \in o.fail THEN Fail(e3, Err("partial_close", 0, 0))
        ELSE Ok(evaluateSymbolProtection(e5, d.symbol, [o EXCEPT !.defer = FALSE]))

\* ------------------------------------------------------ pre-trade guards
\* market.Data: CurrentPrice is price[symbol]; the indicators are
\*   hasMid, mid.ATR14, mid.EMA20 (pips), mid.RSI7 (tenths): MidTermContext
\*   macd: CurrentMACD; longATR: LongerTermContext.ATR14 (0: absent)
\*   rsi: IntradaySeries.RSI7Values (tenths; <<>>: absent)
\* Money is in cents.

ensureMidTermEntryFilters(md, CurrentPrice, direction) ==
    IF ~md.hasMid THEN Err("mid_term_missing", 0, 0)
    ELSE IF md.mid.ATR14 <= 0 \/ md.mid.EMA20 = 0 \/ md.mid.RSI7 <= 0
         THEN Err("mid_term_not_ready", 0, 0)
    ELSE IF direction = "long"
         THEN (IF md.mid.RSI7 > 680 THEN Err("rsi_high", md.mid.RSI7, 0)
               ELSE IF 10 * CurrentPrice > 10 * md.mid.EMA20 + 6 * md.mid.ATR14
                    THEN Err("price_above_band", CurrentPrice, 0)
               ELSE Nil)
    ELSE IF direction = "short"
         THEN (IF md.mid.RSI7 < 320 THEN Err("rsi_low", md.mid.RSI7, 0)
               ELSE IF 10 * CurrentPrice < 10 * md.mid.EMA20 - 6 * md.mid.ATR14
                    THEN Err("price_below_band", CurrentPrice, 0)
               ELSE Nil)
    ELSE Err("unknown_direction", 0, 0)

ensureShortTermMomentum(md, direction) ==
    LET n == Len(md.rsi)
        slope == md.rsi[n] - md.rsi[n - 1]
    IN  IF direction \notin {"long", "short"} THEN Err("unknown_direction", 0, 0)
        ELSE IF direction = "long" /\ U(md.macd) < -floatEpsilon
             THEN Err("macd_negative", md.macd, 0)
        ELSE IF direction = "short" /\ U(md.macd) > floatEpsilon
             THEN Err("macd_positive", md.macd, 0)
        ELSE IF n >= 2 /\ direction = "long" /\ slope < -2
             THEN Err("rsi_not_rising", md.rsi[n - 1], md.rsi[n])
        ELSE IF n >= 2 /\ direction = "short" /\ slope > 2
             THEN Err("rsi_not_falling", md.rsi[n - 1], md.rsi[n])
        ELSE Nil

isMajorPair(symbol) == symbol \in {"BTCUSDT", "ETHUSDT"}

\* A variant that takes the largest of the three bounds.
allowedStopDistance_Largest(md, CurrentPrice) ==
    LET c0 == IF md.longATR > 0 THEN md.longATR ELSE 0
        c1 == IF md.hasMid /\ md.mid.ATR14 > 0 THEN (md.mid.ATR14 * 3) \div 2 ELSE 0
        c2 == IF CurrentPrice > 0 THEN (CurrentPrice * 15) \div 1000 ELSE 0
    IN  Max(c0, Max(c1, c2))

\* 0: no distance can be computed (the error return).
allowedStopDistance(md, CurrentPrice) ==
    IF md.longATR > 0 THEN md.longATR
    ELSE LET c1 == IF md.hasMid /\ md.mid.ATR14 > 0 THEN (md.mid.ATR14 * 3) \div 2 ELSE 0
             c2 == IF CurrentPrice > 0 THEN (CurrentPrice * 15) \div 1000 ELSE 0
         IN  Max(c1, c2)

\* A variant that leaves RiskUSD as it was.
clampPosition_KeepRisk(d, cap) ==
    IF d.position_size_usd > cap THEN [d EXCEPT !.position_size_usd = cap] ELSE d

\* "if PositionSizeUSD > cap { ratio := cap / PositionSizeUSD;
\* PositionSizeUSD = cap; if RiskUSD > 0 { RiskUSD *= ratio } }"
clampPosition(d, cap) ==
    IF d.position_size_usd > cap
    THEN [d EXCEPT !.position_size_usd = cap,
                   !.risk_usd = IF @ > 0 THEN (@ * cap) \div d.position_size_usd ELSE @]
    ELSE d

\* Lines 889-916: the equity cap (1x below 150 USDT, else 1.5x, 3x for majors).
capByEquity(d, totalEquity) ==
    IF U(totalEquity) > floatEpsilon /\ totalEquity < 15000
    THEN clampPosition(d, totalEquity)
    ELSE IF U(totalEquity) > floatEpsilon
         THEN clampPosition(d, IF isMajorPair(d.symbol) THEN totalEquity * 3
                               ELSE (totalEquity * 3) \div 2)
    ELSE d

\* Lines 927-930.
capRisk(d, maxRisk) ==
    IF d.risk_usd > 0 /\ d.risk_usd > maxRisk THEN [d EXCEPT !.risk_usd = maxRisk]
    ELSE d

\* Lines 933-944, expectedRisk being max(totalEquity*0.005, 0.5).
anchorRisk(d, totalEquity, expectedRisk) ==
    IF U(totalEquity) <= floatEpsilon THEN d
    ELSE IF d.risk_usd <= 0 THEN [d EXCEPT !.risk_usd = expectedRisk]
    ELSE IF 2 * Abs(d.risk_usd - expectedRisk) > expectedRisk
         THEN [d EXCEPT !.risk_usd = expectedRisk]
    ELSE d

\* [err, d, clamped]: the error, the decision as the function leaves it (it
\* rewrites PositionSizeUSD and RiskUSD in place), and the decision as the
\* clamps of lines 889-925 leave it, before the risk budget is capped and
\* anchored.
ensurePositionFitsBalance(d, availableBalance, totalEquity, md, CurrentPrice) ==
    LET safetyBuffer == Max(50, (availableBalance * 2) \div 100)
        maxUsable == availableBalance - safetyBuffer
        maxNotional == maxUsable * d.leverage
        minNotional == IF isMajorPair(d.symbol) THEN 6000 ELSE 1200
        maxRisk == (availableBalance * 8) \div 10
        allowed == allowedStopDistance(md, CurrentPrice)
        distance == Abs(d.stop_loss - CurrentPrice)
        clamped == clampPosition(capByEquity(d, totalEquity), maxNotional)
        rejected(err) == [err |-> err, d |-> d, clamped |-> d]
    IN  IF d.leverage <= 0 THEN rejected(Err("no_leverage", 0, 0))
        ELSE IF maxUsable <= 0 THEN rejected(Err("balance_below_buffer", availableBalance, 0))
        ELSE IF maxNotional < minNotional
             THEN rejected(Err("below_min_notional", maxNotional, minNotional))
        ELSE IF allowed <= 0 THEN rejected(Err("no_atr", 0, 0))
        ELSE IF distance > allowed THEN rejected(Err("stop_distance", distance, allowed))
        ELSE [err |-> Nil, clamped |-> clamped,
              d |-> anchorRisk(capRisk(clamped, maxRisk),
                               totalEquity, Max((totalEquity * 5) \div 1000, 50))]

\* ---------------------------------------------------------------- opens
\* executeOpenLongWithRecord (side "long") and executeOpenShortWithRecord
\* (side "short"), which differ in the side only.

\* Lines 1047-1086: the order, then the caches.  The venue refuses an order
\* of quantity 0.
placeOpen(e, d, o, side, quantity) ==
    LET key == positionKey(d.symbol, side)
        e4 == Call(e, "SetMarginMode", d.symbol, "", 0, 0)
        e5 == Call(e4, IF side = "long" THEN "OpenLong" ELSE "OpenShort",
                   d.symbol, side, quantity, 0)
        e6 == storePositionMeta(
                  [e5 EXCEPT !.positions = VenueOpen(@, key, quantity, d.leverage)],
                  d.symbol, side, price[d.symbol], quantity)
        e7 == Call(e6, "SetStopLoss", d.symbol, ToUpper(side), quantity, d.stop_loss)
        e9 == Call(IF "SetStopLoss" \in o.fail THEN e7
                   ELSE storeStopLoss(e7, d.symbol, side, d.stop_loss),
                   "SetTakeProfit", d.symbol, ToUpper(side), quantity, d.take_profit)
    IN  IF "Open" \in o.fail \/ quantity <= 0 THEN Fail(e5, Err("open", 0, 0))
        ELSE IF "SetTakeProfit" \in o.fail THEN Ok(e9)
        ELSE Ok(storeTakeProfit(e9, d.symbol, side, d.take_profit))

\* A variant without the margin check of lines 1042-1045.
openSized_Unchecked(e, d, o, side, availableBalance) ==
    placeOpen(e, d, o, side, (d.position_size_usd * 1000) \div (price[d.symbol] \div 100))

\* Lines 1032-1045: the quantity (PositionSizeUSD / CurrentPrice, in 1e-3
\* contracts, rounded down) and the margin check
\* size/leverage + size*0.0004 > available, times 2500*leverage.
openSized(e, d, o, side, availableBalance) ==
    IF d.position_size_usd * 2500 + d.position_size_usd * d.leverage
           > availableBalance * 2500 * d.leverage
    THEN Fail(e, Err("insufficient_margin", d.position_size_usd, availableBalance))
    ELSE placeOpen(e, d, o, side,
                   (d.position_size_usd * 1000) \div (price[d.symbol] \div 100))

\* Line 1028: fit is what ensurePositionFitsBalance returned.
openChecked(e, o, side, availableBalance, fit) ==
    IF fit.err # Nil THEN Fail(e, fit.err)
    ELSE openSized(e, fit.d, o, side, availableBalance)

\* Lines 1010-1030.
openFunded(e, d, o, side) ==
    LET availableBalance == o.bal.available
        totalEquity == IF o.bal.wallet > 0 THEN o.bal.wallet + o.bal.unrealized
                       ELSE availableBalance
        e3 == Call(e, "GetBalance", "", "", 0, 0)
    IN  IF "GetBalance" \in o.fail THEN Fail(e3, Err("get_balance", 0, 0))
        ELSE openChecked(e3, o, side, availableBalance,
                         ensurePositionFitsBalance(d, availableBalance, totalEquity,
                                                   o.md, price[d.symbol]))

\* A variant: the positions are queried before the confidence is looked at.
executeOpenWithRecord_QueryFirst(e, d, o, side) ==
    LET key == positionKey(d.symbol, side)
        CurrentPrice == price[d.symbol]
        e1 == Call(e, "GetPositions", "", "", 0, 0)
        e2 == Call(e1, "market.Get", d.symbol, "", 0, 0)
        f1 == ensureMidTermEntryFilters(o.md, CurrentPrice, side)
        f2 == ensureShortTermMomentum(o.md, side)
    IN  IF "GetPositions" \notin o.fail /\ Has(e.positions, key)
        THEN Fail(e1, Err("duplicate_position", 0, 0))
        ELSE IF d.confidence < minConfidence
             THEN Fail(e1, Err("confidence", d.confidence, minConfidence))
        ELSE IF "market.Get" \in o.fail THEN Fail(e2, Err("market", 0, 0))
        ELSE IF f1 # Nil THEN Fail(e2, f1)
        ELSE IF f2 # Nil THEN Fail(e2, f2)
        ELSE openFunded(e2, d, o, side)

executeOpenWithRecord(e, d, o, side) ==
    LET key == positionKey(d.symbol, side)
        CurrentPrice == price[d.symbol]
        e1 == Call(e, "GetPositions", "", "", 0, 0)
        e2 == Call(e1, "market.Get", d.symbol, "", 0, 0)
        f1 == ensureMidTermEntryFilters(o.md, CurrentPrice, side)
        f2 == ensureShortTermMomentum(o.md, side)
    IN  IF d.confidence < minConfidence
        THEN Fail(e, Err("confidence", d.confidence, minConfidence))
        ELSE IF "GetPositions" \notin o.fail /\ Has(e.positions, key)
             THEN Fail(e1, Err("duplicate_position", 0, 0))
        ELSE IF "market.Get" \in o.fail THEN Fail(e2, Err("market", 0, 0))
        ELSE IF f1 # Nil THEN Fail(e2, f1)
        ELSE IF f2 # Nil THEN Fail(e2, f2)
        ELSE openFunded(e2, d, o, side)

executeOpenLongWithRecord(e, d, o) == executeOpenWithRecord(e, d, o, "long")

executeOpenShortWithRecord(e, d, o) == executeOpenWithRecord(e, d, o, "short")

\* ------------------------------------------------------------- dispatch

executeDecisionWithRecord(e, d, o) ==
    CASE d.action = "open_long" -> executeOpenLongWithRecord(e, d, o)
      [] d.action = "open_short" -> executeOpenShortWithRecord(e, d, o)
      [] d.action = "close_long" -> executeCloseLongWithRecord(e, d, o)
      [] d.action = "close_short" -> executeCloseShortWithRecord(e, d, o)
      [] d.action = "update_stop_loss" -> executeUpdateStopLossWithRecord(e, d, o)
      [] d.action = "update_take_profit" -> executeUpdateTakeProfitWithRecord(e, d, o)
      [] d.action = "partial_close" -> executePartialCloseWithRecord(e, d, o)
      [] d.action \in {"hold", "wait"} -> Ok(e)
      [] OTHER -> Fail(e, Err("unknown_action", 0, 0))

\* ------------------------------------------------------ execution order

getActionPriority_OpensFirst(action) ==
    CASE action \in {"open_long", "open_short"} -> 1
      [] action \in {"update_stop_loss", "update_take_profit"} -> 2
      [] action \in {"close_long", "close_short", "partial_close"} -> 3
      [] action \in {"hold", "wait"} -> 4
      [] OTHER -> 999

getActionPriority(action) ==
    CASE action \in {"close_long", "close_short", "partial_close"} -> 1
      [] action \in {"update_stop_loss", "update_take_profit"} -> 2
      [] action \in {"open_long", "open_short"} -> 3
      [] action \in {"hold", "wait"} -> 4
      [] OTHER -> 999

\* The inner loop "for j := i + 1; j < len(sorted); j++", from j on.
RECURSIVE sortInner(_, _, _)
sortInner(sorted, i, j) ==
    IF j > Len(sorted) THEN sorted
    ELSE sortInner(IF getActionPriority(sorted[i].action)
                          > getActionPriority(sorted[j].action)
                   THEN [sorted EXCEPT ![i] = sorted[j], ![j] = sorted[i]]
                   ELSE sorted,
                   i, j + 1)

\* The outer loop "for i := 0; i < len(sorted)-1; i++", from i on.
RECURSIVE sortOuter(_, _)
sortOuter(sorted, i) ==
    IF i >= Len(sorted) THEN sorted
    ELSE sortOuter(sortInner(sorted, i, i + 1), i + 1)

sortDecisionsByPriority_Identity(decisions) == decisions

sortDecisionsByPriority(decisions) ==
    IF Len(decisions) <= 1 THEN decisions ELSE sortOuter(decisions, 1)

\* ------------------------------------------------- automatic decisions
\* ctx.Positions is the list of keys of the snapshot ps taken by
\* buildTradingContext; ctx.MarketDataMap is filled by the decision source
\* (o.ctxMd: it holds the symbol's data) and carries the same current price.

findPositionSide(ps, list, symbol) ==
    LET idx == {i \in 1..Len(list) : list[i][1] = symbol /\ ps[list[i]].qty > 0}
    IN  IF idx = {} THEN "" ELSE ToLower(list[SetMin(idx)][2])

\* The keys of "existing" after the first loop of
\* buildAutoTakeProfitDecisions.
existingTakeProfit(ps, list, base) ==
    {<<ToUpper(base[i].symbol),
       IF findPositionSide(ps, list, base[i].symbol) = "" THEN "long"
       ELSE findPositionSide(ps, list, base[i].symbol)>> :
        i \in {j \in 1..Len(base) : base[j].action = "update_take_profit"}}

\* A variant without the comparison with the cached take-profit.
autoTakeProfitEmit_Always(side, hasTP, tp, desiredTP) == <<desiredTP, TRUE>>

\* Lines 1820-1827: <<desiredTP, emit>>; desiredTP <= tp*(1+1e-5) and
\* desiredTP >= tp*(1-1e-5) on integers.
autoTakeProfitEmit(side, hasTP, tp, desiredTP) ==
    IF hasTP /\ side = "long" /\ desiredTP - tp <= tp \div 100000 THEN <<0, FALSE>>
    ELSE IF hasTP /\ side = "short" /\ tp - desiredTP <= tp \div 100000
         THEN <<0, FALSE>>
    ELSE <<desiredTP, TRUE>>

\* Lines 1807-1818, reach being targetMultiple * risk.
autoTakeProfitTarget(side, entry, currentPrice, risk, reach) ==
    IF side = "long"
    THEN (IF entry + reach <= currentPrice THEN currentPrice + (3 * risk) \div 10
          ELSE entry + reach)
    ELSE (IF entry - reach >= currentPrice THEN currentPrice - (3 * risk) \div 10
          ELSE entry - reach)

\* Lines 1773-1827.
autoTakeProfitAt(side, entry, currentPrice, risk, favorable, hasTP, tp) ==
    IF U(risk) <= floatEpsilon THEN <<0, FALSE>>
    ELSE IF favorable <= risk THEN <<0, FALSE>>
    ELSE IF 2 * favorable < 3 * risk THEN <<0, FALSE>>
    ELSE autoTakeProfitEmit(
             side, hasTP, tp,
             autoTakeProfitTarget(
                 side, entry, currentPrice, risk,
                 IF favorable >= 3 * risk THEN favorable + risk \div 2
                 ELSE IF favorable >= 2 * risk THEN (7 * risk) \div 2
                 ELSE (5 * risk) \div 2))

\* <<desiredTP, emit>> for one position of the second loop (lines 1761-1827).
autoTakeProfitFor(e, key, pos) ==
    LET side == ToLower(key[2])
        k == positionKey(key[1], side)
        entry == pos.entry
        currentPrice == price[key[1]]
        hasTP == Has(e.tp, k)
    IN  IF ~Has(e.sl, k) THEN <<0, FALSE>>
        ELSE autoTakeProfitAt(side, entry, currentPrice,
                                 IF side = "long" THEN entry - e.sl[k]
                                 ELSE e.sl[k] - entry,
                                 IF side = "long" THEN currentPrice - entry
                                 ELSE entry - currentPrice,
                                 hasTP, IF hasTP THEN e.tp[k] ELSE 0)

RECURSIVE autoTakeProfitFrom(_, _, _, _)
autoTakeProfitFrom(e, ps, list, existing) ==
    IF list = <<>> THEN <<>>
    ELSE LET key == Head(list)
             k == <<ToUpper(key[1]), ToLower(key[2])>>
             t == autoTakeProfitFor(e, key, ps[key])
         IN  IF k \in existing \/ ~t[2]
             THEN autoTakeProfitFrom(e, ps, Tail(list), existing)
             ELSE <<[Dec("update_take_profit", key[1]) EXCEPT
                         !.new_take_profit = t[1], !.auto = TRUE]>>
                  \o autoTakeProfitFrom(e, ps, Tail(list), existing \cup {k})

buildAutoTakeProfitDecisions(e, ps, list, base) ==
    autoTakeProfitFrom(e, ps, list, existingTakeProfit(ps, list, base))

\* A variant that emits the candidate whether or not it improves on the
\* cached stop.
autoStopEmit_Always(long, stop, newStop) == <<newStop, TRUE>>

\* Lines 1920-1922 and 1931-1933: <<newStop, emit>>.
autoStopEmit(long, stop, newStop) ==
    IF long /\ U(newStop) <= U(stop) + floatEpsilon THEN <<0, FALSE>>
    ELSE IF ~long /\ U(newStop) >= U(stop) - floatEpsilon THEN <<0, FALSE>>
    ELSE <<newStop, TRUE>>

\* Lines 1917-1919 and 1928-1930.
autoStopInsidePrice(long, current, stop, buffer, newStop) ==
    autoStopEmit(long, stop,
                 IF long THEN (IF newStop >= current THEN current - buffer ELSE newStop)
                 ELSE (IF newStop <= current THEN current + buffer ELSE newStop))

\* Lines 1913-1916 and 1924-1927, newStop being current -/+ buffer.
autoStopAdjust(long, current, stop, buffer, newStop) ==
    autoStopInsidePrice(long, current, stop, buffer,
                        IF long THEN (IF newStop <= stop THEN stop + buffer \div 2
                                      ELSE newStop)
                        ELSE (IF newStop >= stop THEN stop - buffer \div 2
                              ELSE newStop))

\* Lines 1875-1934, risk and adverse computed.
autoStopTriggered(long, current, entry, stop, risk, adverse, rsi, buffer) ==
    IF U(risk) <= floatEpsilon THEN <<0, FALSE>>
    ELSE IF long /\ ~(current < entry \/ 10 * adverse >= 4 * risk
                          \/ (rsi > 0 /\ rsi <= 450))
         THEN <<0, FALSE>>
    ELSE IF ~long /\ ~(current > entry \/ 10 * adverse >= 4 * risk \/ rsi >= 550)
         THEN <<0, FALSE>>
    ELSE autoStopAdjust(long, current, stop, buffer,
                        IF long THEN current - buffer ELSE current + buffer)

\* Lines 1862-1911 with stop the cached stop.
autoStopFrom(side, current, entry, stop, rsi) ==
    IF side = "long"
    THEN autoStopTriggered(TRUE, current, entry, stop, entry - stop, entry - current,
                           rsi, Max((current * 8) \div 10000,
                                    ((entry - stop) * 15) \div 100))
    ELSE autoStopTriggered(side # "short", current, entry, stop, stop - entry,
                           current - entry, rsi,
                           Max((current * 8) \div 10000, ((stop - entry) * 15) \div 100))

\* <<newStop, emit>> for one position of buildAutoStopLossDecisions' loop.
autoStopLossFor(e, key, pos, o) ==
    LET side == ToLower(key[2])
        k == positionKey(key[1], side)
    IN  IF ~Has(e.sl, k) THEN <<0, FALSE>>
        ELSE IF e.sl[k] = 0 THEN <<0, FALSE>>
        ELSE autoStopFrom(side, price[key[1]], pos.entry, e.sl[k],
                          IF o.ctxMd /\ o.md.hasMid THEN o.md.mid.RSI7 ELSE 0)

RECURSIVE autoStopLossFrom(_, _, _, _, _)
autoStopLossFrom(e, ps, list, existing, o) ==
    IF list = <<>> THEN <<>>
    ELSE LET key == Head(list)
             k == ToUpper(key[1])
             t == autoStopLossFor(e, key, ps[key], o)
         IN  IF k \in existing \/ ~t[2]
             THEN autoStopLossFrom(e, ps, Tail(list), existing, o)
             ELSE <<[Dec("update_stop_loss", key[1]) EXCEPT
                         !.new_stop_loss = t[1], !.auto = TRUE]>>
                  \o autoStopLossFrom(e, ps, Tail(list), existing \cup {k}, o)

buildAutoStopLossDecisions(e, ps, list, base, o) ==
    autoStopLossFrom(e, ps, list,
                     {ToUpper(base[i].symbol) :
                         i \in {j \in 1..Len(base) : base[j].action = "update_stop_loss"}},
                     o)

\* ------------------------------------------------------- the decision cycle
\* The engine's control state.  The cycle (runCycle, on Run's goroutine) and
\* the drawdown monitor (checkPositionDrawdown, on its own goroutine) are
\* two threads, "cycle" and "monitor".

VARIABLES
    callCount,            \* at.callCount
    lastBalanceSyncTime,  \* at.lastBalanceSyncTime
    pc,                   \* runCycle: "idle" or "exec" (in the loop of line 566)
    batch,                \* decision.Decisions with the automatic ones appended
    sorted,               \* sortedDecisions
    idx,                  \* the loop's position in sortedDecisions
    record,               \* the cycle's logger.DecisionRecord
    logCount,             \* how many records LogDecision has been given
    ret,                  \* what the last runCycle returned
    inFlight,             \* how many invocations of runCycle have not returned
    mpc,                  \* checkPositionDrawdown: "idle" or "scan"
    msnap,                \* the positions it was given by GetPositions
    mlist,                \* the positions its loop has yet to visit
    pending               \* per thread: the validated, unplaced stop update

cvars == <<callCount, lastBalanceSyncTime, pc, batch, sorted, idx, record,
           logCount, ret, inFlight>>

mvars == <<mpc, msnap, mlist>>

\* Run, Stop and the monitor's goroutine.
VARIABLES
    isRunning,            \* at.isRunning
    runPc,                \* Run: "new", "startup" (line 274), "check" (line 278),
                          \* "wait" (line 280) or "returned"
    stopPc,               \* Stop: "none", "wait" (line 294) or "returned"
    stopMonitorCh,        \* at.stopMonitorCh: "open" or "closed"
    monitorWg,            \* at.monitorWg's counter
    monitorPc,            \* the goroutine of line 2299: "none", "live" or "done"
    tickerC,              \* per thread: the ticks buffered in its ticker.C (0 or 1)
    checksAfterStop,      \* the drawdown checks begun since stopMonitorCh closed
    applied,              \* the last function applied on its own: its name, its
                          \* arguments and its result
    resume,               \* per thread: where its handler was descheduled inside
                          \* a realized close, and the values it holds there
    streak,               \* the losses realized since the last realized gain, as
                          \* the closes happened
    orders                \* venue: the stop-loss and take-profit orders it holds

lvars == <<isRunning, runPc, stopPc, stopMonitorCh, monitorWg, monitorPc, tickerC,
           checksAfterStop, orders, applied, resume, streak>>

NoApplication == [fn |-> "", arg |-> <<>>, res |-> <<>>]

\* The venue holds no protective order.
NoOrders == [stops |-> {}, tps |-> {}]

\* at: "" (not descheduled), "handleRealizedPnL" (the venue has closed, the
\* call of handleRealizedPnL(symbol, side, qty, px) is next) or "store" (line
\* 2594 has loaded consecutiveLosses = n and not yet stored n + 1).
NoResume == [at |-> "", symbol |-> "", side |-> "", qty |-> 0, px |-> 0, n |-> 0]

engine == <<evars, cvars, mvars, pending>>

vars == <<engine, lvars>>

Threads == {"cycle", "monitor"}

NoDecision == Dec("", "")

\* What decision.GetFullDecisionWithCustomPrompt returns besides its error: nil,
\* or a *FullDecision with the prompts, the chain of thought and the
\* decisions it has.
NoTrace ==
    [nil |-> TRUE, SystemPrompt |-> "", UserPrompt |-> "", CoTTrace |-> "",
     Decisions |-> <<>>]

FullDecision(ai) ==
    [nil |-> FALSE, SystemPrompt |-> "system", UserPrompt |-> "user",
     CoTTrace |-> "cot", Decisions |-> ai]

\* ai: the decisions the source has; when it fails (o.fail), o.partial says
\* whether it still returns what it has.
GetFullDecision(ai, o) ==
    IF "GetFullDecision" \in o.fail /\ ~o.partial THEN NoTrace ELSE FullDecision(ai)

\* What the last step was, for the steps that run a handler: the thread, the
\* operation, the decision and the position it was about, the error it ended
\* with, the engine before it and the calls the step made.  The other steps
\* leave Op("env", "", ...).
Op(by, op, d, key, err) ==
    [by |-> by, op |-> op, d |-> d, key |-> key, err |-> err, before |-> Cur,
     calls |-> <<>>, src |-> NoTrace]

\* The position a decision is about: the side its action names, or the
\* first listed position of its symbol.
targetKey(d) ==
    CASE d.action \in {"open_long", "close_long"} -> positionKey(d.symbol, "long")
      [] d.action \in {"open_short", "close_short"} -> positionKey(d.symbol, "short")
      [] d.action \in {"update_stop_loss", "update_take_profit", "partial_close"} ->
             findTargetPosition(positions, d.symbol)
      [] OTHER -> NoKey

\* ... or, when the cycle resumes a descheduled stop update, the position that
\* update was validated for.
cycleKey(d) ==
    IF pending["cycle"] # NoPending
    THEN positionKey(pending["cycle"].symbol, pending["cycle"].side)
    ELSE targetKey(d)

EmptyRecord ==
    [Success |-> TRUE, ErrorMessage |-> Nil, Decisions |-> <<>>, SystemPrompt |-> "",
     InputPrompt |-> "", CoTTrace |-> "", DecisionJSON |-> <<>>]

\* Lines 476-484: "if decision != nil" the trace is copied into the record;
\* DecisionJSON is the decisions as given ("" when there are none).
withTrace_Dropped(rec, decision) == rec

withTrace(rec, decision) ==
    IF decision.nil THEN rec
    ELSE [rec EXCEPT !.SystemPrompt = decision.SystemPrompt,
                     !.InputPrompt = decision.UserPrompt,
                     !.CoTTrace = decision.CoTTrace,
                     !.DecisionJSON = decision.Decisions]

\* logger.DecisionAction as the loop of line 566 leaves it.
ActionRecord(d, err) ==
    [Action |-> d.action, Symbol |-> d.symbol, Success |-> err = Nil, Error |-> err]

\* All sequences over S of length at most n.
RECURSIVE SeqsUpTo(_, _)
SeqsUpTo(S, n) ==
    IF n = 0 THEN {<<>>}
    ELSE LET shorter == SeqsUpTo(S, n - 1)
         IN  shorter \cup {Append(q, x) : q \in {r \in shorter : Len(r) = n - 1}, x \in S}

\* runCycle up to the loop of line 566.  ai: what the decision source answers.
\* The result: the engine record, the return value ("" while the cycle goes
\* on), the record and the batch.  dailyPnL/lastResetTime, initialBalance and
\* positionFirstSeenTime feed the prompt and the status report only and are
\* left out.
runCycleFailed(e, err, r) ==
    [e |-> e, ret |-> r, batch |-> <<>>, answer |-> NoTrace,
     record |-> [EmptyRecord EXCEPT !.Success = FALSE, !.ErrorMessage = err]]

\* Lines 476-509 when the decision source returned an error.
decisionFailed(e, decision) ==
    [runCycleFailed(e, Err("decision", 0, 0), "error") EXCEPT
        !.answer = decision, !.record = withTrace(@, decision)]

\* Lines 537-547: the automatic decisions are appended, the take-profit ones
\* first.
withAutoStopLoss(e, ps, list, base, o) ==
    base \o buildAutoStopLossDecisions(e, ps, list, base, o)

withAutoDecisions(e, ps, list, ai, o) ==
    withAutoStopLoss(e, ps, list, ai \o buildAutoTakeProfitDecisions(e, ps, list, ai), o)

\* Lines 428-547: autoSyncBalanceIfNeeded (a GetBalance when the last sync is
\* ten minutes old), buildTradingContext, the decision source.
runCycleContext(e, ai, o) ==
    LET e0 == IF now - lastBalanceSyncTime >= 10
              THEN Call(e, "GetBalance", "", "", 0, 0) ELSE e
        e1 == Call(e0, "GetBalance", "", "", 0, 0)
        e2 == Call(e1, "GetPositions", "", "", 0, 0)
        e3 == Call(e2, "GetFullDecision", "", "", 0, 0)
    IN  IF "GetBalance" \in o.fail
        THEN runCycleFailed(e1, Err("context", 0, 0), "error")
        ELSE IF "GetPositions" \in o.fail
             THEN runCycleFailed(e2, Err("context", 0, 0), "error")
        ELSE IF "GetFullDecision" \in o.fail
             THEN decisionFailed(e3, GetFullDecision(ai, o))
        ELSE [e |-> e3, ret |-> "", answer |-> GetFullDecision(ai, o),
              record |-> withTrace(EmptyRecord, GetFullDecision(ai, o)),
              batch |-> withAutoDecisions(e, e.positions, GetPositions(e.positions),
                                          ai, o)]

runCycleStart_NoPauseGate(e, ai, o) == runCycleContext(e, ai, o)

runCycleStart(e, ai, o) ==
    IF now < e.stopUntil
    THEN runCycleFailed(e, Err("paused", e.stopUntil - now, 0), "nil")
    ELSE runCycleContext(e, ai, o)

\* runCycle from its first line to the sort of line 557; r is what
\* runCycleStart returned.
CycleStarted(r) ==
    /\ Commit(r.e)
    /\ callCount' = callCount + 1
    /\ lastBalanceSyncTime' =
           IF now < stopUntil \/ now - lastBalanceSyncTime < 10
           THEN lastBalanceSyncTime ELSE now
    /\ calls' = [calls EXCEPT !["cycle"] = r.e.calls]
    /\ record' = r.record
    /\ batch' = r.batch
    /\ sorted' = sortDecisionsByPriority(r.batch)
    /\ idx' = 1
    /\ ret' = r.ret
    /\ pc' = IF r.ret = "" THEN "exec" ELSE "idle"
    /\ logCount' = IF r.ret = "" THEN logCount ELSE logCount + 1
    /\ inFlight' = IF r.ret = "" THEN inFlight + 1 ELSE inFlight
    /\ lastOp' = [Op("cycle", "runCycle", NoDecision, NoKey, r.record.ErrorMessage)
                    EXCEPT !.src = r.answer]
    /\ UNCHANGED <<now, price, mvars, pending>>

\* A variant in which Run does not wait for runCycle to return.
CycleReady_Concurrent == TRUE

\* Run calls runCycle on its own goroutine (lines 274 and 281): it is at one
\* of the calls only when the previous invocation has returned.
CycleReady == pc = "idle"

\* An invocation of runCycle in the world w: w.batches, the batches the
\* decision source may answer with; w.maxCycles; w.oracles; w.prices;
\* w.instants.
CycleInvoked(w) ==
    /\ CycleReady
    /\ callCount < w.maxCycles
    /\ \E o \in w.oracles, ai \in w.batches :
         CycleStarted(runCycleStart(Cur, ai, o))

CycleStart(w) ==
    /\ CycleInvoked(w)
    /\ UNCHANGED lvars

\* Lines 577-588 for decision d, r being the engine the handler left; when
\* the handler was descheduled after its ratchet check, nothing is recorded
\* yet.
Executed_AbortOnError(d, r) ==
    /\ Commit(r)
    /\ calls' = [calls EXCEPT !["cycle"] = @ \o r.calls]
    /\ pending' = [pending EXCEPT !["cycle"] = r.pending]
    /\ record' = [record EXCEPT !.Decisions = Append(@, ActionRecord(d, r.err))]
    /\ idx' = IF r.err = Nil THEN idx + 1 ELSE Len(sorted) + 1
    /\ lastOp' = [Op("cycle", d.action, d, cycleKey(d), r.err) EXCEPT !.calls = r.calls]
    /\ UNCHANGED <<now, price, mvars, callCount, lastBalanceSyncTime, pc, batch,
                   sorted, logCount, ret, inFlight>>

Executed(d, r) ==
    /\ Commit(r)
    /\ calls' = [calls EXCEPT !["cycle"] = @ \o r.calls]
    /\ pending' = [pending EXCEPT !["cycle"] = r.pending]
    /\ record' = IF r.pending # NoPending THEN record
                 ELSE [record EXCEPT !.Decisions = Append(@, ActionRecord(d, r.err))]
    /\ idx' = IF r.pending # NoPending THEN idx ELSE idx + 1
    /\ lastOp' = [Op("cycle", IF r.pending # NoPending THEN "check" ELSE d.action, d,
                     cycleKey(d), r.err) EXCEPT !.calls = r.calls]
    /\ UNCHANGED <<now, price, mvars, callCount, lastBalanceSyncTime, pc, batch,
                   sorted, logCount, ret, inFlight>>

\* One iteration of the loop of line 566.
ExecDecision(w) ==
    /\ pc = "exec"
    /\ idx <= Len(sorted)
    /\ pending["cycle"] = NoPending
    /\ \E o \in w.oracles :
         Executed(sorted[idx], executeDecisionWithRecord(Cur, sorted[idx], o))
    /\ UNCHANGED lvars

\* The rest of an iteration whose handler was descheduled: lines 1314-1330,
\* then lines 577-588.
ExecCommit(w) ==
    /\ pc = "exec"
    /\ pending["cycle"] # NoPending
    /\ \E o \in w.oracles :
         Executed(sorted[idx], finishUpdateStopLoss(Cur, pending["cycle"], o))
    /\ UNCHANGED lvars

\* A variant that returns without saving the record.
CycleEnd_NoLog ==
    /\ pc = "exec"
    /\ idx > Len(sorted)
    /\ pc' = "idle"
    /\ ret' = "nil"
    /\ batch' = <<>>
    /\ sorted' = <<>>
    /\ idx' = 1
    /\ record' = EmptyRecord
    /\ calls' = [calls EXCEPT !["cycle"] = <<>>]
    /\ lastOp' = Op("env", "", NoDecision, NoKey, Nil)
    /\ inFlight' = inFlight - 1
    /\ UNCHANGED <<vars_caches, now, price, mvars, pending, callCount,
                   lastBalanceSyncTime, logCount>>
    /\ UNCHANGED lvars

\* Lines 591-596: the record is saved (a failure is only logged) and runCycle
\* returns nil; its locals are gone.
CycleEnd ==
    /\ pc = "exec"
    /\ idx > Len(sorted)
    /\ pc' = "idle"
    /\ ret' = "nil"
    /\ logCount' = logCount + 1
    /\ batch' = <<>>
    /\ sorted' = <<>>
    /\ idx' = 1
    /\ record' = EmptyRecord
    /\ calls' = [calls EXCEPT !["cycle"] = <<>>]
    /\ lastOp' = Op("env", "", NoDecision, NoKey, Nil)
    /\ inFlight' = inFlight - 1
    /\ UNCHANGED <<vars_caches, now, price, mvars, pending, callCount,
                   lastBalanceSyncTime>>
    /\ UNCHANGED lvars

\* ---------------------------------------------------- the drawdown monitor

\* checkPositionDrawdown up to its loop (lines 2322-2326).
MonitorBegun(w) ==
    /\ mpc = "idle"
    /\ \E o \in w.oracles :
         LET failed == "GetPositions" \in o.fail
             list == IF failed THEN <<>> ELSE GetPositions(positions)
         IN  /\ msnap' = IF failed THEN EmptyMap ELSE Snapshot(positions)
             /\ mlist' = list
             /\ mpc' = IF failed THEN "idle" ELSE "scan"
             /\ calls' = [calls EXCEPT !["monitor"] =
                              <<[op |-> "GetPositions", symbol |-> "", side |-> "",
                                 qty |-> 0, px |-> 0, held |-> {}]>>]
             /\ lastOp' = Op("env", "", NoDecision, NoKey, Nil)
    /\ UNCHANGED <<vars_caches, now, price, cvars, pending>>

\* A tick of the monitor's ticker has been received (line 2309).
MonitorBegin(w) ==
    /\ MonitorBegun(w)
    /\ UNCHANGED lvars

\* The monitor's step on the position at key, r being the engine it left.
MonitorStepped(op, key, r, rest) ==
    /\ Commit(Ok(r))
    /\ calls' = [calls EXCEPT !["monitor"] = @ \o r.calls]
    /\ pending' = [pending EXCEPT !["monitor"] = r.pending]
    /\ mlist' = rest
    /\ lastOp' = [Op("monitor", op, NoDecision, key, r.err) EXCEPT !.calls = r.calls]
    /\ UNCHANGED <<now, price, cvars, msnap, mpc>>

\* One iteration of the loop of line 2328 (up to the ratchet check of the
\* stop update it dispatches, when the goroutine is descheduled there).
MonitorStep(w) ==
    /\ mpc = "scan"
    /\ mlist # <<>>
    /\ pending["monitor"] = NoPending
    /\ \E o \in w.oracles :
         MonitorStepped("checkPosition", Head(mlist),
                        checkOnePosition(Cur, Head(mlist), msnap[Head(mlist)], o),
                        Tail(mlist))
    /\ UNCHANGED lvars

\* The rest of the dispatched stop update: lines 1314-1330.
MonitorCommit(w) ==
    /\ mpc = "scan"
    /\ pending["monitor"] # NoPending
    /\ \E o \in w.oracles :
         MonitorStepped("update_stop_loss",
                        positionKey(pending["monitor"].symbol, pending["monitor"].side),
                        finishUpdateStopLoss(Cur, pending["monitor"], o), mlist)
    /\ UNCHANGED lvars

\* The loop of line 2328 is done: checkPositionDrawdown returns.
MonitorEnd ==
    /\ mpc = "scan"
    /\ mlist = <<>>
    /\ pending["monitor"] = NoPending
    /\ mpc' = "idle"
    /\ msnap' = EmptyMap
    /\ calls' = [calls EXCEPT !["monitor"] = <<>>]
    /\ lastOp' = Op("env", "", NoDecision, NoKey, Nil)
    /\ UNCHANGED <<vars_caches, now, price, cvars, mlist, pending>>
    /\ UNCHANGED lvars

\* ------------------------------------------------------- the environment

\* The market moves.
PriceMove(w) ==
    /\ \E s \in Symbols, p \in w.prices :
         /\ p # price[s]
         /\ price' = [price EXCEPT ![s] = p]
    /\ lastOp' = Op("env", "", NoDecision, NoKey, Nil)
    /\ UNCHANGED <<vars_caches, now, calls, cvars, mvars, pending>>
    /\ UNCHANGED lvars

\* Time passes.
Advance(w) ==
    /\ \E t \in w.instants :
         /\ t > now
         /\ now' = t
    /\ lastOp' = Op("env", "", NoDecision, NoKey, Nil)
    /\ UNCHANGED <<vars_caches, price, calls, cvars, mvars, pending>>
    /\ UNCHANGED lvars

\* ------------------------------------------------------- Run and Stop

MaxChecksAfterStop == 2

\* Run up to its first runCycle (lines 260-271): isRunning is set, the
\* monitor's goroutine is registered with monitorWg and started, the ticker
\* is created.
RunCall ==
    /\ runPc = "new"
    /\ isRunning' = TRUE
    /\ monitorWg' = monitorWg + 1
    /\ monitorPc' = "live"
    /\ runPc' = "startup"
    /\ UNCHANGED <<stopPc, stopMonitorCh, tickerC, checksAfterStop, orders, resume, streak>>
    /\ UNCHANGED <<engine, applied>>

\* A ticker fires: its channel holds one tick; a tick that finds the channel
\* full is dropped (time.Ticker).
TickerFire ==
    /\ \E t \in Threads :
         /\ t = "cycle" => runPc \in {"startup", "check", "wait"}
         /\ t = "monitor" => monitorPc = "live"
         /\ tickerC[t] = 0
         /\ tickerC' = [tickerC EXCEPT ![t] = 1]
    /\ UNCHANGED <<isRunning, runPc, stopPc, stopMonitorCh, monitorWg, monitorPc,
                   checksAfterStop, orders, resume, streak>>
    /\ UNCHANGED <<engine, applied>>

\* Run calls runCycle: at once after the start (line 274), or on a tick of
\* its ticker (lines 280-281).
RunCycle(w) ==
    /\ \/ runPc = "startup"
       \/ runPc = "wait" /\ tickerC["cycle"] = 1
    /\ CycleInvoked(w)
    /\ runPc' = "check"
    /\ tickerC' = IF runPc = "wait" THEN [tickerC EXCEPT !["cycle"] = 0] ELSE tickerC
    /\ UNCHANGED <<isRunning, stopPc, stopMonitorCh, monitorWg, monitorPc,
                   checksAfterStop, orders, applied, resume, streak>>

\* "for at.isRunning" (line 278), once runCycle has returned.  The field is
\* read without synchronization: after Stop has cleared it, the read yields
\* the old or the new value.
RunCheck ==
    /\ runPc = "check"
    /\ CycleReady
    /\ \E seen \in {isRunning} \cup (IF stopPc # "none" THEN {TRUE} ELSE {}) :
         runPc' = IF seen THEN "wait" ELSE "returned"
    /\ UNCHANGED <<isRunning, stopPc, stopMonitorCh, monitorWg, monitorPc, tickerC,
                   checksAfterStop, orders, resume, streak>>
    /\ UNCHANGED <<engine, applied>>

\* The monitor's select takes the tick (lines 2308-2310); when stopMonitorCh
\* is closed as well, select chooses either case.
MonitorTake(w) ==
    /\ monitorPc = "live"
    /\ tickerC["monitor"] = 1
    /\ stopMonitorCh = "closed" => checksAfterStop < MaxChecksAfterStop
    /\ MonitorBegun(w)
    /\ tickerC' = [tickerC EXCEPT !["monitor"] = 0]
    /\ checksAfterStop' =
           IF stopMonitorCh = "closed" THEN checksAfterStop + 1 ELSE checksAfterStop
    /\ UNCHANGED <<isRunning, runPc, stopPc, stopMonitorCh, monitorWg, monitorPc,
                   applied, resume, streak, orders>>

\* The monitor's select takes the stop signal (lines 2311-2313) and the
\* goroutine returns; the deferred monitorWg.Done runs.
MonitorQuit ==
    /\ monitorPc = "live"
    /\ mpc = "idle"
    /\ stopMonitorCh = "closed"
    /\ monitorPc' = "done"
    /\ monitorWg' = monitorWg - 1
    /\ UNCHANGED <<isRunning, runPc, stopPc, stopMonitorCh, tickerC, checksAfterStop, orders,
                   resume, streak>>
    /\ UNCHANGED <<engine, applied>>

\* Stop, called once Run has started, up to its wait (lines 292-293).
StopCall ==
    /\ stopPc = "none"
    /\ runPc # "new"
    /\ isRunning' = FALSE
    /\ stopMonitorCh' = "closed"
    /\ stopPc' = "wait"
    /\ UNCHANGED <<runPc, monitorWg, monitorPc, tickerC, checksAfterStop, orders, resume, streak>>
    /\ UNCHANGED <<engine, applied>>

\* monitorWg.Wait returns when the counter is zero, and Stop returns (lines
\* 294-296).
StopReturn ==
    /\ stopPc = "wait"
    /\ monitorWg = 0
    /\ stopPc' = "returned"
    /\ UNCHANGED <<isRunning, runPc, stopMonitorCh, monitorWg, monitorPc, tickerC,
                   checksAfterStop, orders, resume, streak>>
    /\ UNCHANGED <<engine, applied>>

\* ------------------------------------------- functions applied on their own

\* A function is called on its own: the engine is not involved.  The steps
\* that do so record the call in applied, as [fn, arg, res]: the function,
\* what it was called with and what it returned.
EngineIdle ==
    /\ UNCHANGED <<isRunning, runPc, stopPc, stopMonitorCh, monitorWg, monitorPc, tickerC,
                   checksAfterStop, orders, resume, streak>>
    /\ UNCHANGED engine

\* NewAutoTrader on an account whose open positions are ps: empty caches,
\* no losses, stopUntil the zero time (not after now), lastBalanceSyncTime
\* the time of construction.
Constructed(ps) ==
    /\ now = 0
    /\ price = [s \in Symbols |-> 1000000]
    /\ positions = ps
    /\ positionMeta = EmptyMap
    /\ stopLossCache = EmptyMap
    /\ takeProfitCache = EmptyMap
    /\ peakPnLCache = EmptyMap
    /\ consecutiveLosses = 0
    /\ stopUntil = 0
    /\ calls = [t \in Threads |-> <<>>]
    /\ lastOp = Op("env", "", NoDecision, NoKey, Nil)
    /\ callCount = 0
    /\ lastBalanceSyncTime = 0
    /\ pc = "idle"
    /\ batch = <<>>
    /\ sorted = <<>>
    /\ idx = 1
    /\ record = EmptyRecord
    /\ logCount = 0
    /\ ret = ""
    /\ inFlight = 0
    /\ mpc = "idle"
    /\ msnap = EmptyMap
    /\ mlist = <<>>
    /\ pending = [t \in Threads |-> NoPending]
    /\ isRunning = FALSE
    /\ runPc = "new"
    /\ stopPc = "none"
    /\ stopMonitorCh = "open"
    /\ monitorWg = 0
    /\ monitorPc = "none"
    /\ tickerC = [t \in Threads |-> 0]
    /\ checksAfterStop = 0
    /\ applied = NoApplication
    /\ resume = [t \in Threads |-> NoResume]
    /\ streak = 0
    /\ orders = NoOrders

\* The engine is constructed on an account that holds no position.
Init == Constructed(EmptyMap)

\* ---------------------------------------------------------------- inputs

MaxFailures == 1

FailSets(F) == {f \in SUBSET F : Cardinality(f) <= MaxFailures}

Oracles(F, M, B, C, D) ==
    {[fail |-> f, md |-> m, bal |-> b, ctxMd |-> c, defer |-> d, partial |-> TRUE] :
        f \in FailSets(F), m \in M, b \in B, c \in C, d \in D}

\* A quiet market around 100 USDT: ATR14 2, EMA20 100, RSI7 50, MACD 0, a
\* flat intraday RSI series, long-horizon ATR14 3.
MdCalm ==
    [hasMid |-> TRUE, mid |-> [ATR14 |-> 20000, EMA20 |-> 1000000, RSI7 |-> 500],
     macd |-> 0, longATR |-> 30000, rsi |-> <<500, 500>>]

\* 400 USDT, all of it available.
Bal400 == [available |-> 40000, wallet |-> 40000, unrealized |-> 0]

OpenLong(sl, tp) ==
    [Dec("open_long", "BTCUSDT") EXCEPT !.leverage = 10, !.position_size_usd = 10000,
        !.stop_loss = sl, !.take_profit = tp, !.confidence = 85]

OpenShort(sl, tp) ==
    [Dec("open_short", "BTCUSDT") EXCEPT !.leverage = 10, !.position_size_usd = 10000,
        !.stop_loss = sl, !.take_profit = tp, !.confidence = 85]

UpdateSL(x) == [Dec("update_stop_loss", "BTCUSDT") EXCEPT !.new_stop_loss = x]

UpdateTP(x) == [Dec("update_take_profit", "BTCUSDT") EXCEPT !.new_take_profit = x]

PartialClose(pct) == [Dec("partial_close", "BTCUSDT") EXCEPT !.close_percentage = pct]

\* ------------------------------------------- specification: the stop ratchet
\* Stop updates from the decision source, one handler at a time, while the
\* market moves.

MaxStopBatch == 1

MaxStopCycles == 2

WStop ==
    [batches |-> SeqsUpTo({OpenLong(980000, 1050000), OpenShort(1020000, 950000),
                           UpdateSL(970000), UpdateSL(980000), UpdateSL(990000),
                           UpdateSL(1010000), UpdateSL(1020000), UpdateSL(1030000)},
                          MaxStopBatch),
     maxCycles |-> MaxStopCycles,
     oracles |-> Oracles({"SetStopLoss"}, {MdCalm}, {Bal400}, {TRUE}, {FALSE}),
     prices |-> {1000000, 1020000},
     instants |-> {0}]

NextStop ==
    \/ CycleStart(WStop)
    \/ ExecDecision(WStop)
    \/ CycleEnd
    \/ PriceMove(WStop)

SpecStop == Init /\ [][NextStop]_vars

\* ---------------------------------------------------------------- C1
\* The handler of an update_stop_loss decision has just returned.
StopUpdateDone == lastOp.by = "cycle" /\ lastOp.op = "update_stop_loss"

\* ... for a position whose (symbol, side) had a cached stop.
StopUpdateOnCached ==
    /\ StopUpdateDone
    /\ lastOp.key # NoKey
    /\ Has(lastOp.before.sl, lastOp.key)

\* C1 (as the code has it): an update_stop_loss that is accepted for a
\* (symbol, side) with a cached stop carries a stop at least as protective as
\* the cached one, up to floatEpsilon (long: new + 1e-6 >= cached; short:
\* new - 1e-6 <= cached), an equal stop included, and the new stop becomes the
\* cached one; an update the ratchet guard rejects returns an error citing the
\* cached and the requested value and leaves the cache as it was; with no
\* cache entry the guard rejects nothing.
C1_RatchetAccepts ==
    /\ (StopUpdateOnCached /\ lastOp.err = Nil) =>
          /\ stopLossCache[lastOp.key] = lastOp.d.new_stop_loss
          /\ lastOp.key[2] = "long" =>
                U(lastOp.d.new_stop_loss) + floatEpsilon
                    >= U(lastOp.before.sl[lastOp.key])
          /\ lastOp.key[2] = "short" =>
                U(lastOp.d.new_stop_loss) - floatEpsilon
                    <= U(lastOp.before.sl[lastOp.key])
    /\ (StopUpdateDone /\ lastOp.err.kind = "ratchet") =>
          /\ StopUpdateOnCached
          /\ lastOp.err.a = lastOp.before.sl[lastOp.key]
          /\ lastOp.err.b = lastOp.d.new_stop_loss
          /\ stopLossCache = lastOp.before.sl
    /\ (StopUpdateDone /\ ~StopUpdateOnCached) => lastOp.err.kind # "ratchet"

\* C1's case: an update_stop_loss accepted for a long whose stop was cached,
\* the new stop above the cached one.
C1_Witness ==
    /\ StopUpdateOnCached
    /\ lastOp.err = Nil
    /\ lastOp.key[2] = "long"
    /\ lastOp.d.new_stop_loss > lastOp.before.sl[lastOp.key]

\* C1 as stated: an accepted stop is strictly more protective than the cached
\* one.
C1_StrictlyTighter ==
    (StopUpdateOnCached /\ lastOp.err = Nil) =>
        /\ lastOp.key[2] = "long" =>
              lastOp.d.new_stop_loss > lastOp.before.sl[lastOp.key]
        /\ lastOp.key[2] = "short" =>
              lastOp.d.new_stop_loss < lastOp.before.sl[lastOp.key]

\* ------------------------------ specification: stop updates, interleaved
\* The cycle and the monitor both run the stop update, and either may be
\* descheduled between the ratchet check of line 1310 and the venue calls of
\* line 1315.

MaxRaceCycles == 2

WRace ==
    [batches |-> {<<>>, <<OpenLong(980000, 1050000)>>, <<OpenShort(1020000, 950000)>>,
                  <<UpdateSL(985000)>>, <<UpdateSL(1015000)>>},
     maxCycles |-> MaxRaceCycles,
     oracles |-> Oracles({}, {MdCalm}, {Bal400}, {TRUE}, BOOLEAN),
     prices |-> {980000, 1000000, 1020000},
     instants |-> {0}]

NextRace ==
    \/ CycleStart(WRace)
    \/ ExecDecision(WRace)
    \/ ExecCommit(WRace)
    \/ CycleEnd
    \/ MonitorBegin(WRace)
    \/ MonitorStep(WRace)
    \/ MonitorCommit(WRace)
    \/ MonitorEnd
    \/ PriceMove(WRace)

SpecRace == Init /\ [][NextRace]_vars

\* ---------------------------------------------------------------- C2
\* C2 as stated: whichever thread completes an update_stop_loss, and however
\* the two interleave, the stop-loss cache of the updated (symbol, side) does
\* not become less protective: it does not decrease for a long, nor increase
\* for a short.
C2_CacheNeverLoosens ==
    \A k \in Keys :
        (/\ lastOp.op = "update_stop_loss"
         /\ lastOp.err = Nil
         /\ Has(lastOp.before.sl, k)
         /\ Has(stopLossCache, k)) =>
            /\ k[2] = "long" => stopLossCache[k] >= lastOp.before.sl[k]
            /\ k[2] = "short" => stopLossCache[k] <= lastOp.before.sl[k]

\* ------------------------------------ specification: one batch, in order
\* The decision source answers with any batch over the pool; a venue order
\* may fail.

MaxBatch == 3

MaxBatchCycles == 1

CloseLong == Dec("close_long", "BTCUSDT")

Hold == Dec("hold", "BTCUSDT")

Liquidate == Dec("liquidate", "BTCUSDT")

WBatch ==
    [batches |-> SeqsUpTo({OpenLong(980000, 1050000), CloseLong, UpdateSL(990000),
                           Hold, Liquidate}, MaxBatch),
     maxCycles |-> MaxBatchCycles,
     oracles |-> Oracles({"Open", "Close"}, {MdCalm}, {Bal400}, {TRUE}, {FALSE}),
     prices |-> {1000000},
     instants |-> {0}]

NextBatch ==
    \/ CycleStart(WBatch)
    \/ ExecDecision(WBatch)
    \/ CycleEnd

SpecBatch == Init /\ [][NextBatch]_vars

\* ---------------------------------------------------------------- C3
\* How often x occurs in the sequence q.
Count(q, x) == Cardinality({i \in 1..Len(q) : q[i] = x})

Range(q) == {q[i] : i \in 1..Len(q)}

\* The priorities the claim lists.
C3_Priority(action) ==
    CASE action \in {"close_long", "close_short", "partial_close"} -> 1
      [] action \in {"update_stop_loss", "update_take_profit"} -> 2
      [] action \in {"open_long", "open_short"} -> 3
      [] action \in {"hold", "wait"} -> 4
      [] OTHER -> 999

\* C3: while a cycle executes its batch, the sorted batch is a permutation of
\* the batch, ordered by non-decreasing priority (closes 1, stop and
\* take-profit updates 2, opens 3, hold/wait 4, anything else 999); the
\* decisions executed so far are the first ones of the sorted batch, in its
\* order, so no open has been executed before a close and nothing follows an
\* unknown action but unknown actions.
C3_ClosesBeforeOpens ==
    pc = "exec" =>
        /\ Len(sorted) = Len(batch)
        /\ \A d \in Range(batch) \cup Range(sorted) : Count(sorted, d) = Count(batch, d)
        /\ \A i \in 1..Len(sorted) : \A j \in 1..Len(sorted) :
              i < j => C3_Priority(sorted[i].action) <= C3_Priority(sorted[j].action)
        /\ Len(record.Decisions) = idx - 1
        /\ \A i \in 1..Len(record.Decisions) :
              /\ record.Decisions[i].Action = sorted[i].action
              /\ record.Decisions[i].Symbol = sorted[i].symbol
        /\ \A i \in 1..Len(record.Decisions) : \A j \in 1..Len(record.Decisions) :
              i < j =>
                 /\ ~(/\ record.Decisions[i].Action \in {"open_long", "open_short"}
                      /\ record.Decisions[j].Action \in
                             {"close_long", "close_short", "partial_close"})
                 /\ C3_Priority(record.Decisions[i].Action) = 999
                        => C3_Priority(record.Decisions[j].Action) = 999

\* C3's case: a batch with an unknown action first, then open_long(X), then
\* close_long(X), executed to its end: the close went first, the unknown
\* action last.
C3_Witness ==
    /\ pc = "exec"
    /\ Len(batch) = 3
    /\ batch[1].action = "liquidate"
    /\ batch[2].action = "open_long"
    /\ batch[3].action = "close_long"
    /\ Len(record.Decisions) = 3
    /\ record.Decisions[1].Action = "close_long"
    /\ record.Decisions[2].Action = "open_long"
    /\ record.Decisions[3].Action = "liquidate"

\* -------------------------------- specification: the circuit breaker
\* A long is opened and closed again and again while the market moves and
\* time passes (instants in minutes: the start, 45 min and 25 h later).

MaxBreakerBatch == 2

MaxBreakerCycles == 5

WBreaker ==
    [batches |-> SeqsUpTo({OpenLong(980000, 1050000), CloseLong}, MaxBreakerBatch),
     maxCycles |-> MaxBreakerCycles,
     oracles |-> Oracles({}, {MdCalm}, {Bal400}, {TRUE}, {FALSE}),
     prices |-> {990000, 1000000},
     instants |-> {0, 45, 1500}]

NextBreaker ==
    \/ CycleStart(WBreaker)
    \/ ExecDecision(WBreaker)
    \/ CycleEnd
    \/ PriceMove(WBreaker)
    \/ Advance(WBreaker)

SpecBreaker == Init /\ [][NextBreaker]_vars

\* ---------------------------------------------------------------- C4
\* The pause the claim lists for a streak of n losses, in minutes.
C4_Duration(n) ==
    CASE n = 1 -> 0
      [] n = 2 -> 45
      [] n = 3 -> 24 * 60
      [] OTHER -> 72 * 60

\* The cycle has just closed a position it has the entry price of.
C4_Closed ==
    /\ lastOp.by = "cycle"
    /\ lastOp.op \in {"close_long", "close_short"}
    /\ lastOp.err = Nil
    /\ Has(lastOp.before.meta, lastOp.key)

\* What that close realized (1e-7 USDT; 1e-6 USDT is 10).
C4_Pnl ==
    LET m == lastOp.before.meta[lastOp.key]
    IN  IF lastOp.key[2] = "long"
        THEN (price[lastOp.key[1]] - m.EntryPrice) * m.Quantity
        ELSE (m.EntryPrice - price[lastOp.key[1]]) * m.Quantity

C5_PausedCycleSkipped ==
    [][(callCount' = callCount + 1 /\ now < stopUntil) =>
          /\ calls'["cycle"] = <<>>
          /\ batch' = <<>>
          /\ sorted' = <<>>
          /\ record' = [EmptyRecord EXCEPT
                            !.Success = FALSE,
                            !.ErrorMessage = Err("paused", stopUntil - now, 0)]
          /\ logCount' = logCount + 1
          /\ ret' = "nil"
          /\ pc' = "idle"
          /\ lastBalanceSyncTime' = lastBalanceSyncTime
          /\ UNCHANGED vars_caches]_vars

\* C5's case: a cycle has just been skipped with 45 minutes of pause left.
C5_Witness ==
    /\ lastOp.op = "runCycle"
    /\ lastOp.err = Err("paused", 45, 0)
    /\ now < stopUntil
    /\ record.Success = FALSE
    /\ ret = "nil"

\* ----------------------------------- specification: the drawdown monitor
\* Longs and shorts of one symbol are opened by the cycle while the monitor
\* ticks and the market moves between 98 and 99 USDT; the venue may refuse a
\* close and the market data may be unavailable.

MaxMonitorCycles == 2

WMonitor ==
    [batches |-> {<<>>, <<OpenLong(980000, 1050000)>>,
                  <<OpenShort(1020000, 950000)>>},
     maxCycles |-> MaxMonitorCycles,
     oracles |-> Oracles({"Close", "market.Get"}, {MdCalm}, {Bal400}, {TRUE}, {FALSE}),
     prices |-> {980000, 990000},
     instants |-> {0}]

NextMonitor ==
    \/ CycleStart(WMonitor)
    \/ ExecDecision(WMonitor)
    \/ CycleEnd
    \/ MonitorBegin(WMonitor)
    \/ MonitorStep(WMonitor)
    \/ MonitorEnd
    \/ PriceMove(WMonitor)

SpecMonitor == Init /\ [][NextMonitor]_vars

\* ---------------------------------------------------------------- C6
\* The calls that act on the venue (the others only read).
VenueOrders ==
    {"OpenLong", "OpenShort", "CloseLong", "CloseShort", "CancelStopOrders",
     "SetStopLoss", "SetTakeProfit", "SetLeverage", "SetMarginMode"}

OrdersOf(q) == SelectSeq(q, LAMBDA c : c.op \in VenueOrders)

\* The monitor has just visited the position lastOp.key of its snapshot.
MonitorChecked ==
    /\ lastOp.by = "monitor"
    /\ lastOp.op = "checkPosition"
    /\ U(Abs(msnap[lastOp.key].qty)) >= floatEpsilon

\* The ROI% the visit observed, and the leverage bucket it used.
ObservedLeverage == IF msnap[lastOp.key].lev > 0 THEN msnap[lastOp.key].lev ELSE 10

ObservedRoi ==
    positionRoiPct(lastOp.key[2], msnap[lastOp.key].entry, msnap[lastOp.key].mark,
                   ObservedLeverage)

\* The cached peak the visit compared it with: the greater of the peak cached
\* before and the observed ROI%.
ObservedPeak ==
    IF Has(lastOp.before.peak, lastOp.key)
       /\ ~FracLt(lastOp.before.peak[lastOp.key], ObservedRoi)
    THEN lastOp.before.peak[lastOp.key]
    ELSE ObservedRoi

\* peak >= breakeven of the bucket and a retrace of at least its drawdown%.
DrawdownHit ==
    LET profile == roiProfileFor(ObservedLeverage)
    IN  /\ ObservedPeak[1] > 0
        /\ FracLe(<<profile.breakeven, 10>>, ObservedPeak)
        /\ FracLe(<<profile.drawdown, 1>>,
                  <<(ObservedPeak[1] * ObservedRoi[2] - ObservedRoi[1] * ObservedPeak[2])
                        * 100,
                    ObservedPeak[1] * ObservedRoi[2]>>)

\* C6 (as the code has it): when the monitor visits a position whose cached
\* peak is at or above its bucket's breakeven and whose ROI has retraced by at
\* least the bucket's drawdown% from it, the first order the visit sends to
\* the venue is the full close of that position: nothing, and no stop update
\* in particular, is sent for that position before it.
C6_EmergencyCloseFirst ==
    (MonitorChecked /\ DrawdownHit) =>
        /\ OrdersOf(lastOp.calls) # <<>>
        /\ Head(OrdersOf(lastOp.calls)) =
               [op |-> IF lastOp.key[2] = "long" THEN "CloseLong" ELSE "CloseShort",
                symbol |-> lastOp.key[1], side |-> lastOp.key[2], qty |-> 0, px |-> 0,
                held |-> {}]

\* C6's case: the visit found the drawdown and closed the position.
C6_Witness ==
    /\ MonitorChecked
    /\ DrawdownHit
    /\ lastOp.key \in DOMAIN lastOp.before.positions
    /\ lastOp.key \notin DOMAIN positions

\* The orders of the tick so far that precede the full close of lastOp.key.
OrdersBeforeClose ==
    LET q == OrdersOf(calls["monitor"])
        closeOp == IF lastOp.key[2] = "long" THEN "CloseLong" ELSE "CloseShort"
        at == {i \in 1..Len(q) : q[i].op = closeOp /\ q[i].symbol = lastOp.key[1]}
    IN  IF at = {} THEN q ELSE SubSeq(q, 1, SetMin(at) - 1)

\* C6 as stated: no order for the position's symbol precedes its emergency
\* close in the tick.
C6_FirstForSymbol ==
    (MonitorChecked /\ DrawdownHit) =>
        \A i \in 1..Len(OrdersBeforeClose) :
            OrdersBeforeClose[i].symbol # lastOp.key[1]

\* ------------------------------ specification: closes and the peak cache
\* A long is opened and closed by the cycle while the monitor ticks and the
\* market moves between 100 and 102 USDT.

MaxCloseCycles == 2

WClose ==
    [batches |-> {<<>>, <<OpenLong(980000, 1050000)>>, <<CloseLong>>},
     maxCycles |-> MaxCloseCycles,
     oracles |-> Oracles({}, {MdCalm}, {Bal400}, {TRUE}, {FALSE}),
     prices |-> {1000000, 1020000},
     instants |-> {0}]

NextClose ==
    \/ CycleStart(WClose)
    \/ ExecDecision(WClose)
    \/ CycleEnd
    \/ MonitorBegin(WClose)
    \/ MonitorStep(WClose)
    \/ MonitorEnd
    \/ PriceMove(WClose)

SpecClose == Init /\ [][NextClose]_vars

\* ---------------------------------------------------------------- C7
\* The cycle has just closed the position lastOp.key in full.
CycleClosed ==
    /\ lastOp.by = "cycle"
    /\ lastOp.op \in {"close_long", "close_short", "partial_close"}
    /\ lastOp.err = Nil
    /\ lastOp.key \in DOMAIN lastOp.before.positions
    /\ lastOp.key \notin DOMAIN positions

\* The monitor has just closed the position lastOp.key.
MonitorClosed ==
    /\ lastOp.by = "monitor"
    /\ lastOp.op = "checkPosition"
    /\ lastOp.key \in DOMAIN lastOp.before.positions
    /\ lastOp.key \notin DOMAIN positions

\* C7 as stated: once a position is closed, by the cycle or by the monitor,
\* the Peak-PnL cache has no entry for its (symbol, side).
C7_PeakClearedOnClose ==
    (CycleClosed \/ MonitorClosed) => ~Has(peakPnLCache, lastOp.key)

\* What the code does: the monitor's emergency close clears the entry.
C7_MonitorClears ==
    MonitorClosed => ~Has(peakPnLCache, lastOp.key)

\* ---------------------------------------------------------------- C8
\* C8: across any step that leaves the Peak-PnL entry of a (symbol, side) in
\* place, the cached peak does not decrease; and after the monitor's visit of
\* a position, the peak still cached for it is at least the ROI% the visit
\* observed.
C8_PeakMonotone ==
    /\ \A k \in Keys :
          (Has(lastOp.before.peak, k) /\ Has(peakPnLCache, k)) =>
              FracLe(lastOp.before.peak[k], peakPnLCache[k])
    /\ (MonitorChecked /\ Has(peakPnLCache, lastOp.key)) =>
          FracLe(ObservedRoi, peakPnLCache[lastOp.key])

\* C8's case: the visit observed an ROI% below the cached peak, and the peak
\* stayed.
C8_Witness ==
    /\ MonitorChecked
    /\ Has(lastOp.before.peak, lastOp.key)
    /\ Has(peakPnLCache, lastOp.key)
    /\ FracLt(ObservedRoi, lastOp.before.peak[lastOp.key])
    /\ peakPnLCache[lastOp.key] = lastOp.before.peak[lastOp.key]

\* ------------------------------------ specification: take-profit updates
\* A long entered at 100 USDT with its stop at 99 and its take-profit at 103;
\* the decision source may ask for a take-profit of 103 or 104, and at 102
\* USDT (2R of floating gain) the automatic generator wants 103.5.

MaxTPBatch == 1

MaxTPCycles == 3

WTP ==
    [batches |-> SeqsUpTo({OpenLong(990000, 1030000), UpdateTP(1030000),
                           UpdateTP(1040000)}, MaxTPBatch),
     maxCycles |-> MaxTPCycles,
     oracles |-> Oracles({"SetTakeProfit"}, {MdCalm}, {Bal400}, {TRUE}, {FALSE}),
     prices |-> {1000000, 1020000},
     instants |-> {0}]

NextTP ==
    \/ CycleStart(WTP)
    \/ ExecDecision(WTP)
    \/ CycleEnd
    \/ PriceMove(WTP)

SpecTP == Init /\ [][NextTP]_vars

\* ---------------------------------------------------------------- C9
\* runCycle has just built and sorted its batch.
BatchBuilt == lastOp.op = "runCycle" /\ pc = "exec"

\* The automatic take-profit decisions of the batch.
AutoTakeProfits ==
    {i \in 1..Len(batch) : batch[i].auto /\ batch[i].action = "update_take_profit"}

\* The cycle has just executed an update_take_profit of the decision source
\* whose target is the cached take-profit of the position.
SameTargetAgain ==
    /\ lastOp.by = "cycle"
    /\ lastOp.op = "update_take_profit"
    /\ ~lastOp.d.auto
    /\ lastOp.key # NoKey
    /\ Has(lastOp.before.tp, lastOp.key)
    /\ lastOp.before.tp[lastOp.key] = lastOp.d.new_take_profit

\* C9 (as the code has it): the automatic generator synthesizes an
\* update_take_profit only for a target that improves on the cached
\* take-profit by more than 1e-5 of it, so once its target is pushed and
\* cached, the next pass with the same target adds nothing to the batch: no
\* venue call, no cache change, no action record.  An update_take_profit of
\* the decision source is not compared with the cache: one that repeats the
\* cached target and passes the price check cancels the symbol's stop orders
\* and places the take-profit again, leaves the cache at the same value and
\* adds its own action record.
C9_AutoSuppressedOnly ==
    /\ BatchBuilt =>
          \A i \in AutoTakeProfits :
              LET k == findTargetPosition(positions, batch[i].symbol)
              IN  (k # NoKey /\ Has(takeProfitCache, k)) =>
                      IF k[2] = "long"
                      THEN batch[i].new_take_profit - takeProfitCache[k]
                               > takeProfitCache[k] \div 100000
                      ELSE takeProfitCache[k] - batch[i].new_take_profit
                               > takeProfitCache[k] \div 100000
    /\ (SameTargetAgain /\ lastOp.err = Nil) =>
          /\ [c \in 1..Len(OrdersOf(lastOp.calls)) |-> OrdersOf(lastOp.calls)[c].op]
                 = <<"CancelStopOrders", "SetTakeProfit">>
          /\ takeProfitCache = lastOp.before.tp
          /\ Len(record.Decisions) = idx - 1
          /\ record.Decisions[idx - 1] =
                 [Action |-> "update_take_profit", Symbol |-> lastOp.d.symbol,
                  Success |-> TRUE, Error |-> Nil]

\* C9's case: the generator's target (103.5 at 102 USDT) is the cached
\* take-profit, pushed by an earlier pass, and this pass synthesized nothing.
C9_Witness ==
    /\ BatchBuilt
    /\ batch = <<>>
    /\ price["BTCUSDT"] = 1020000
    /\ Has(positions, <<"BTCUSDT", "long">>)
    /\ Has(takeProfitCache, <<"BTCUSDT", "long">>)
    /\ takeProfitCache[<<"BTCUSDT", "long">>] = 1035000
    /\ autoTakeProfitFor([Cur EXCEPT !.tp = EmptyMap], <<"BTCUSDT", "long">>,
                         positions[<<"BTCUSDT", "long">>]) = <<1035000, TRUE>>

\* C9 as stated: a second submission of the cached target makes no venue
\* call, changes no cache and adds no action record.
C9_SecondSubmissionNoOp ==
    SameTargetAgain =>
        /\ OrdersOf(lastOp.calls) = <<>>
        /\ takeProfitCache = lastOp.before.tp
        /\ \A i \in 1..Len(record.Decisions) :
              ~(/\ record.Decisions[i].Action = "update_take_profit"
                /\ record.Decisions[i].Symbol = lastOp.d.symbol)

\* ---------------------------------------------------------------- C10
\* The action record the loop of line 566 keeps of decision d ending with err.
RecordOf(d, err) ==
    [Action |-> d.action, Symbol |-> d.symbol, Success |-> err = Nil, Error |-> err]

\* C10: while a cycle executes its sorted batch, the decisions executed so
\* far have one action record each, in the batch's order; the next decision is
\* executed whatever the earlier ones ended with, and its outcome (success, a
\* validation rejection, an adapter error, an unknown action) is recorded as
\* its own; after the last one the cycle saves its record and returns nil.
C10_PerDecisionIsolation ==
    [][/\ pc = "exec" =>
             /\ Len(record.Decisions) = idx - 1
             /\ \A i \in 1..Len(record.Decisions) :
                   /\ record.Decisions[i].Action = sorted[i].action
                   /\ record.Decisions[i].Symbol = sorted[i].symbol
                   /\ record.Decisions[i].Success = (record.Decisions[i].Error = Nil)
       /\ (pc = "exec" /\ idx <= Len(sorted)) =>
             /\ pc' = "exec"
             /\ sorted' = sorted
             /\ idx' = idx + 1
             /\ record'.Decisions =
                    Append(record.Decisions, RecordOf(sorted[idx], lastOp'.err))
             /\ lastOp'.d = sorted[idx]
       /\ (pc = "exec" /\ idx > Len(sorted)) =>
             /\ pc' = "idle"
             /\ ret' = "nil"
             /\ logCount' = logCount + 1]_vars

\* C10's case: the close was rejected by the venue, the open after it was
\* executed, the unknown action after that was recorded as an error, and the
\* cycle goes on to its end.
C10_Witness ==
    /\ pc = "exec"
    /\ Len(sorted) = 3
    /\ idx = 4
    /\ record.Decisions[1].Action = "close_long"
    /\ record.Decisions[1].Error.kind = "close"
    /\ record.Decisions[2].Action = "open_long"
    /\ record.Decisions[2].Success
    /\ record.Decisions[3].Action = "liquidate"
    /\ record.Decisions[3].Error.kind = "unknown_action"

\* ------------------------------------ specification: the cycle's exit paths
\* Cycles that open and close a long while the market moves between 99 and
\* 100 USDT; the balance query, the position query, the decision source and
\* the venue's close may each fail, and a failing decision source may or may
\* not return what it has.

MaxLogCycles == 5

OraclesPartial(F, M, B) ==
    {[o EXCEPT !.partial = p] : o \in Oracles(F, M, B, {TRUE}, {FALSE}), p \in BOOLEAN}

WLog ==
    [batches |-> {<<>>, <<OpenLong(980000, 1050000)>>, <<CloseLong>>},
     maxCycles |-> MaxLogCycles,
     oracles |-> OraclesPartial({"GetBalance", "GetPositions", "GetFullDecision", "Close"},
                                {MdCalm}, {Bal400}),
     prices |-> {990000, 1000000},
     instants |-> {0}]

NextLog ==
    \/ CycleStart(WLog)
    \/ ExecDecision(WLog)
    \/ CycleEnd
    \/ PriceMove(WLog)

SpecLog == Init /\ [][NextLog]_vars

\* ---------------------------------------------------------------- C11
\* The cycle has just ended on a failure of the decision source.
DecisionSourceFailed ==
    /\ lastOp.by = "cycle"
    /\ lastOp.op = "runCycle"
    /\ lastOp.err = Err("decision", 0, 0)

\* The record carries the trace the source returned (nothing when it returned
\* nil).
CarriesTrace(rec, src) ==
    /\ rec.SystemPrompt = src.SystemPrompt
    /\ rec.InputPrompt = src.UserPrompt
    /\ rec.CoTTrace = src.CoTTrace
    /\ rec.DecisionJSON = src.Decisions

\* C11: when the decision source fails, runCycle saves one record, marked
\* failed, with the system prompt, the chain of thought and the raw decisions
\* the source returned, returns the error and executes nothing: no handler
\* runs (the record has no action), no automatic decision is built (the batch
\* is empty), no order goes to the venue, and the venue and the caches are as
\* they were.
C11_DecisionFailureAborts ==
    [][(callCount' = callCount + 1 /\ DecisionSourceFailed') =>
          /\ logCount' = logCount + 1
          /\ record'.Success = FALSE
          /\ record'.ErrorMessage = Err("decision", 0, 0)
          /\ CarriesTrace(record', lastOp'.src)
          /\ record'.Decisions = <<>>
          /\ ret' = "error"
          /\ pc' = "idle"
          /\ batch' = <<>>
          /\ sorted' = <<>>
          /\ OrdersOf(calls'["cycle"]) = <<>>
          /\ UNCHANGED vars_caches]_vars

\* C11's case: the source failed after producing a close_long for an open long
\* with a cached stop; the record has the trace, nothing was executed.
C11_Witness ==
    /\ DecisionSourceFailed
    /\ ~lastOp.src.nil
    /\ lastOp.src.Decisions = <<CloseLong>>
    /\ record.DecisionJSON = <<CloseLong>>
    /\ record.CoTTrace = "cot"
    /\ Has(positions, <<"BTCUSDT", "long">>)
    /\ Has(stopLossCache, <<"BTCUSDT", "long">>)
    /\ ret = "error"

MaxLifeCycles == 2

WLife ==
    [batches |-> {<<>>, <<OpenLong(980000, 1050000)>>},
     maxCycles |-> MaxLifeCycles,
     oracles |-> Oracles({}, {MdCalm}, {Bal400}, {TRUE}, {FALSE}),
     prices |-> {1000000},
     instants |-> {0}]

NextLife ==
    \/ RunCall
    \/ TickerFire
    \/ RunCycle(WLife)
    \/ ExecDecision(WLife)
    \/ CycleEnd
    \/ RunCheck
    \/ MonitorTake(WLife)
    \/ MonitorStep(WLife)
    \/ MonitorEnd
    \/ MonitorQuit
    \/ StopCall
    \/ StopReturn

SpecLife == Init /\ [][NextLife]_vars

\* ---------------------------------------------------------------- C13
\* C13 as stated: once Stop has closed stopMonitorCh the monitor begins at
\* most one further drawdown check, and Stop has returned only if the
\* monitor's goroutine has.
C13_CooperativeShutdown ==
    /\ checksAfterStop <= 1
    /\ stopPc = "returned" => monitorPc = "done"

\* What the code does have: Stop returns only after the monitor's goroutine
\* has returned, between two checks and never inside one.
C13_StopWaitsForMonitor ==
    /\ stopPc = "returned" => monitorPc = "done"
    /\ monitorPc = "done" => mpc = "idle" /\ stopMonitorCh = "closed"

\* Stop has returned after the monitor ran a check that was begun after the
\* signal.
C13_Reached ==
    /\ stopPc = "returned"
    /\ monitorPc = "done"
    /\ checksAfterStop = 1

\* ---------------------------------------------------------------- C14
\* C14: at most one invocation of runCycle is in flight; a tick of the scan
\* ticker that arrives during a cycle waits in the ticker's channel.
C14_OneCycleInFlight ==
    /\ inFlight <= 1
    /\ inFlight = 1 <=> pc = "exec"

\* C14's case: the second cycle, started by the ticker after the startup
\* cycle returned, is in flight and the next tick is waiting.
C14_Witness ==
    /\ callCount = 2
    /\ pc = "exec"
    /\ inFlight = 1
    /\ runPc = "check"
    /\ tickerC["cycle"] = 1

\* ---------------------------------------------------------------- C15
\* C15: no call to the exchange adapter, the market data or the decision
\* source is made while the calling goroutine holds positionMetaMutex or
\* peakPnLCacheMutex: each call of the cycle and of the monitor's tick was
\* made with no mutex held.
C15_NoLockAcrossCall ==
    \A t \in Threads : \A i \in 1..Len(calls[t]) : calls[t][i].held = {}

\* C15's case: the monitor's visit updated the peak under peakPnLCacheMutex,
\* sent the full close, and afterwards took positionMetaMutex and
\* peakPnLCacheMutex again to drop the entries of the closed position.
C15_Witness ==
    /\ MonitorChecked
    /\ DrawdownHit
    /\ \E i \in 1..Len(lastOp.calls) : lastOp.calls[i].op \in {"CloseLong", "CloseShort"}
    /\ Has(lastOp.before.peak, lastOp.key)
    /\ Has(lastOp.before.meta, lastOp.key)
    /\ ~Has(peakPnLCache, lastOp.key)
    /\ ~Has(positionMeta, lastOp.key)

\* ------------------------------------------- specification: position sizing
\* ensurePositionFitsBalance on its own: opens of 50 to 2000 USDT at 5x and
\* 10x, on a major and on a minor pair, with a risk budget of 0, 5 or 50 USDT,
\* against accounts of 60 to 400 USDT available and 70 to 1000 USDT of equity;
\* the market is calm at 100 USDT and the stop is 1 USDT away.

SizingDecisions ==
    {[Dec("open_long", s) EXCEPT !.leverage = l, !.position_size_usd = z,
                                 !.risk_usd = r, !.stop_loss = 990000,
                                 !.confidence = 85] :
        s \in {"BTCUSDT", "SOLUSDT"}, l \in {5, 10},
        z \in {5000, 10000, 50000, 98000, 200000}, r \in {0, 500, 5000}}

\* <<availableBalance, totalEquity>>, in cents.
SizingAccounts ==
    {<<10000, 10000>>, <<40000, 40000>>, <<10000, 100000>>, <<6000, 7000>>}

FitApplied ==
    \E d \in SizingDecisions, a \in SizingAccounts :
        /\ applied' = [fn |-> "ensurePositionFitsBalance",
                       arg |-> [d |-> d, availableBalance |-> a[1], totalEquity |-> a[2]],
                       res |-> ensurePositionFitsBalance(d, a[1], a[2], MdCalm, 1000000)]
        /\ EngineIdle

NextSizing == FitApplied

SpecSizing == Init /\ [][NextSizing]_vars

\* ---------------------------------------------------------------- C16
FitAccepted ==
    /\ applied.fn = "ensurePositionFitsBalance"
    /\ applied.res.err = Nil

\* (available - max(0.5, 2% of available)) x leverage, in cents.
C16_MaxNotional(available, leverage) ==
    (available - Max(50, (available * 2) \div 100)) * leverage

\* 1x equity below 150 USDT, else 1.5x, 3x for BTC and ETH.
C16_EquityCap(symbol, equity) ==
    IF equity < 15000 THEN equity
    ELSE IF symbol \in {"BTCUSDT", "ETHUSDT"} THEN 3 * equity
    ELSE (3 * equity) \div 2

\* C16: when ensurePositionFitsBalance accepts an open, the position size it
\* leaves is the requested size brought down to max_notional and to the
\* equity cap, whichever is lower, and the clamps leave risk_usd scaled by
\* the ratio of the new size to the requested one (to the cent, each clamp
\* rounding once).
C16_SizingClamp ==
    FitAccepted =>
        LET d == applied.arg.d
            maxNotional == C16_MaxNotional(applied.arg.availableBalance, d.leverage)
            cap == C16_EquityCap(d.symbol, applied.arg.totalEquity)
            size == applied.res.d.position_size_usd
            c == applied.res.clamped
        IN  /\ size <= maxNotional
            /\ size <= cap
            /\ size = Min(d.position_size_usd, Min(maxNotional, cap))
            /\ c.position_size_usd = size
            /\ Abs(c.risk_usd * d.position_size_usd - d.risk_usd * size)
                   <= 2 * d.position_size_usd

\* C16's case: 100 USDT available, 10x, BTCUSDT, 2000 USDT requested with a
\* risk budget of 50 USDT on 1000 USDT of equity: the size becomes 980 and the
\* risk budget 24.50.
C16_Witness ==
    /\ FitAccepted
    /\ applied.arg.d.symbol = "BTCUSDT"
    /\ applied.arg.d.leverage = 10
    /\ applied.arg.d.position_size_usd = 200000
    /\ applied.arg.d.risk_usd = 5000
    /\ applied.arg.availableBalance = 10000
    /\ applied.arg.totalEquity = 100000
    /\ applied.res.d.position_size_usd = 98000
    /\ applied.res.clamped.risk_usd = 2450

\* ------------------------------------------ specification: partial closes
\* A long of 1.0 BTC is opened at 100 USDT and closed in parts of 5, 30, 99
\* and 100 percent, cycle after cycle; the decision source may also ask for 0
\* and for 101 percent.

MaxPartialCycles == 4

WPartial ==
    [batches |-> {<<OpenLong(980000, 1050000)>>, <<PartialClose(0)>>, <<PartialClose(5)>>,
                  <<PartialClose(30)>>, <<PartialClose(99)>>, <<PartialClose(100)>>,
                  <<PartialClose(101)>>},
     maxCycles |-> MaxPartialCycles,
     oracles |-> Oracles({"Close"}, {MdCalm}, {Bal400}, {TRUE}, {FALSE}),
     prices |-> {1000000},
     instants |-> {0}]

\* The quantity computation of the handler on positions of 0.005 to 1.0
\* contracts of a BTC, an ETH and another pair (steps 0.001, 0.01 and 0.1).
QuantityApplied ==
    /\ \E s \in {"BTCUSDT", "ETHUSDT", "SOLUSDT"}, q \in {5, 10, 100, 1000},
          pct \in {5, 30, 99, 100} :
          applied' = [fn |-> "partialCloseQuantity",
                      arg |-> [symbol |-> s, totalQuantity |-> q, ClosePercentage |-> pct],
                      res |-> partialCloseQuantity(s, q, pct)]
    /\ UNCHANGED <<isRunning, runPc, stopPc, stopMonitorCh, monitorWg, monitorPc, tickerC,
                   checksAfterStop, orders, resume, streak>>
    /\ UNCHANGED engine

NextPartial ==
    \/ CycleStart(WPartial)
    \/ ExecDecision(WPartial)
    \/ CycleEnd
    \/ QuantityApplied

SpecPartial == Init /\ [][NextPartial]_vars

\* ---------------------------------------------------------------- C17
\* The cycle has just executed a partial_close of the position lastOp.key
\* with success.
PartialClosed ==
    /\ lastOp.by = "cycle"
    /\ lastOp.op = "partial_close"
    /\ lastOp.err = Nil
    /\ lastOp.key # NoKey

\* The quantity of the close order the handler sent.
ClosedQuantity ==
    LET q == OrdersOf(lastOp.calls)
        at == {i \in 1..Len(q) : q[i].op \in {"CloseLong", "CloseShort"}}
    IN  IF at = {} THEN 0 ELSE q[SetMin(at)].qty

\* The largest multiple of step that is at most n / 100.
LargestMultiple(step, n) ==
    CHOOSE m \in 0..n :
        /\ m % step = 0
        /\ 100 * m <= n
        /\ 100 * (m + step) > n

\* The cached quantity of lastOp.key before the handler ran.
CachedBefore ==
    IF Has(lastOp.before.meta, lastOp.key)
    THEN lastOp.before.meta[lastOp.key].Quantity ELSE 0

OpenDecisions ==
    {[OpenLong(980000, 1050000) EXCEPT !.confidence = c] : c \in {79, 80, 85}}
        \cup {[OpenShort(1020000, 950000) EXCEPT !.confidence = c] : c \in {79, 80, 85}}

\* MidTermContext is nil.
MdNoMid == [MdCalm EXCEPT !.hasMid = FALSE]

\* MidTermContext is there and its ATR14 is not populated.
MdMidUnready == [MdCalm EXCEPT !.mid.ATR14 = 0]

\* IntradaySeries is nil or has no RSI sample; CurrentMACD, a float64, reads 0.
MdNoSeries == [MdCalm EXCEPT !.rsi = <<>>]

\* One RSI sample only.
MdOneSample == [MdCalm EXCEPT !.rsi = <<500>>]

\* The intraday RSI falls from 50 to 45, and rises from 50 to 55.
MdFalling == [MdCalm EXCEPT !.rsi = <<500, 450>>]

MdRising == [MdCalm EXCEPT !.rsi = <<500, 550>>]

OpenOracles ==
    Oracles({"GetPositions", "market.Get", "Open"},
            {MdCalm, MdNoMid, MdMidUnready, MdNoSeries, MdOneSample, MdFalling, MdRising},
            {Bal400}, {TRUE}, {FALSE})

\* The opens of 1.0 BTC a position may be made of.
MaxStack == 2

\* executeDecisionWithRecord, called with a decision of D on the engine as
\* the calls before left it, the collaborators answering as one of O.
HandlerApplied(D, O) ==
    \E d \in D, o \in O :
        LET r == executeDecisionWithRecord(Cur, d, o)
        IN  /\ \A k \in DOMAIN positions : positions[k].qty < MaxStack * 1000
            /\ Commit(r)
            /\ applied' = [fn |-> "executeDecisionWithRecord",
                           arg |-> [d |-> d, o |-> o, before |-> Cur],
                           res |-> [err |-> r.err, calls |-> r.calls]]
            /\ UNCHANGED <<now, price, calls, lastOp, cvars, mvars, pending>>
            /\ UNCHANGED <<isRunning, runPc, stopPc, stopMonitorCh, monitorWg, monitorPc,
                           tickerC, checksAfterStop, orders, resume, streak>>

OpenApplied == HandlerApplied(OpenDecisions, OpenOracles)

NextOpen == OpenApplied

SpecOpen == Init /\ [][NextOpen]_vars

\* An open handler has just returned.
OpenReturned ==
    /\ applied.fn = "executeDecisionWithRecord"
    /\ applied.arg.d.action \in {"open_long", "open_short"}

\* The position the open was for.
OpenKey ==
    positionKey(applied.arg.d.symbol,
                IF applied.arg.d.action = "open_long" THEN "long" ELSE "short")

\* The open order of the handler reached the adapter.
OpenSent ==
    \E i \in 1..Len(applied.res.calls) :
        /\ applied.res.calls[i].op \in {"OpenLong", "OpenShort"}
        /\ positionKey(applied.res.calls[i].symbol, applied.res.calls[i].side) = OpenKey

\* ---------------------------------------------------------------- C18
\* C18: an open_long or open_short decision with confidence below 80 is
\* rejected with an error before any exchange or market-data call, and every
\* cache is left as it was.
C18_ConfidenceGate ==
    (OpenReturned /\ applied.arg.d.confidence < 80) =>
        /\ applied.res.err = Err("confidence", applied.arg.d.confidence, 80)
        /\ applied.res.calls = <<>>
        /\ positionMeta = applied.arg.before.meta
        /\ stopLossCache = applied.arg.before.sl
        /\ takeProfitCache = applied.arg.before.tp
        /\ peakPnLCache = applied.arg.before.peak
        /\ consecutiveLosses = applied.arg.before.losses
        /\ stopUntil = applied.arg.before.stopUntil
        /\ positions = applied.arg.before.positions

\* C18's case: an open_long of confidence 79 is rejected while a long of
\* the symbol is open and cached.
C18_Witness ==
    /\ OpenReturned
    /\ applied.arg.d.action = "open_long"
    /\ applied.arg.d.confidence = 79
    /\ Has(applied.arg.before.positions, OpenKey)
    /\ Has(stopLossCache, OpenKey)
    /\ applied.res.err.kind = "confidence"

\* ---------------------------------------------------------------- C19
\* C19 as stated: an open order for (symbol, side) is never sent to the
\* adapter while a position of the same symbol and side exists on the
\* exchange, on every path of the open handler, the one where the position
\* query fails included.
C19_DuplicatePositionGate ==
    (OpenReturned /\ Has(applied.arg.before.positions, OpenKey)) => ~OpenSent

\* What the code does: the open is rejected when the position query
\* succeeds.
C19_GateWhenQueried ==
    (/\ OpenReturned
     /\ Has(applied.arg.before.positions, OpenKey)
     /\ "GetPositions" \notin applied.arg.o.fail) =>
        /\ ~OpenSent
        /\ applied.res.err # Nil

\* ---------------------------------------------------------------- C20
\* An indicator the guardrails read is absent from the market data.
MidTermMissing(md) ==
    \/ ~md.hasMid
    \/ md.mid.ATR14 <= 0
    \/ md.mid.EMA20 = 0
    \/ md.mid.RSI7 <= 0

SeriesMissing(md) == Len(md.rsi) < 2

\* C20 as stated: an open is rejected whenever an indicator a guardrail
\* reads is absent: a missing or unpopulated mid-term context fails the entry
\* filter, and a missing or too short intraday RSI series fails the momentum
\* filter.
C20_FailClosedIndicators ==
    (/\ OpenReturned
     /\ MidTermMissing(applied.arg.o.md) \/ SeriesMissing(applied.arg.o.md)) =>
        /\ applied.res.err # Nil
        /\ ~OpenSent

\* What the code does: a missing or unpopulated mid-term context rejects the
\* open.
C20_MidTermFailsClosed ==
    (OpenReturned /\ MidTermMissing(applied.arg.o.md)) =>
        /\ applied.res.err # Nil
        /\ ~OpenSent

\* ----------------------------------------- specification: margin at the open
\* Opens of 100, 980 and 6000 USDT at 10x and 60x leverage on accounts with
\* 100 USDT available: at 60x the notional the balance clamp allows, 5880
\* USDT, needs 98 USDT of margin and 2.35 USDT of fee.

\* 100 USDT, all of it available.
Bal100 == [available |-> 10000, wallet |-> 10000, unrealized |-> 0]

\* 2000 USDT in the wallet, 100 of it available.
BalTight == [available |-> 10000, wallet |-> 200000, unrealized |-> 0]

MarginDecisions ==
    {[OpenLong(980000, 1050000) EXCEPT !.leverage = l, !.position_size_usd = z] :
        l \in {10, 60}, z \in {10000, 98000, 600000}}
    \cup {[OpenShort(1020000, 950000) EXCEPT !.leverage = l, !.position_size_usd = z] :
        l \in {10, 60}, z \in {10000, 98000, 600000}}

MarginOracles ==
    Oracles({"GetBalance", "Open", "SetStopLoss"}, {MdCalm}, {Bal100, BalTight},
            {TRUE}, {FALSE})

MarginApplied == HandlerApplied(MarginDecisions, MarginOracles)

NextMargin == MarginApplied

SpecMargin == Init /\ [][NextMargin]_vars

\* ---------------------------------------------------------------- C21
\* The decision as the sizing clamps of the handler left it.
SizedDecision ==
    ensurePositionFitsBalance(
        applied.arg.d, applied.arg.o.bal.available,
        IF applied.arg.o.bal.wallet > 0
        THEN applied.arg.o.bal.wallet + applied.arg.o.bal.unrealized
        ELSE applied.arg.o.bal.available,
        applied.arg.o.md, price[applied.arg.d.symbol]).d

\* position_size/leverage + position_size x 0.04% <= available, for the size
\* in cents, multiplied by 2500 x leverage.
MarginSuffices(size, leverage, available) ==
    size * 2500 + size * leverage <= available * 2500 * leverage

\* The venue and the caches are as they were before the handler.
OpenLeftNoTrace ==
    /\ positions = applied.arg.before.positions
    /\ positionMeta = applied.arg.before.meta
    /\ stopLossCache = applied.arg.before.sl
    /\ takeProfitCache = applied.arg.before.tp
    /\ peakPnLCache = applied.arg.before.peak
    /\ consecutiveLosses = applied.arg.before.losses
    /\ stopUntil = applied.arg.before.stopUntil

\* C21: an OpenLong/OpenShort order is sent to the adapter only if
\* position_size/leverage + position_size x 0.04% is at most the available
\* balance the handler read, for the position size after all sizing clamps;
\* otherwise the open is rejected with no order placed and no cache change.
C21_MarginSufficiency ==
    OpenReturned =>
        /\ OpenSent =>
              MarginSuffices(SizedDecision.position_size_usd, applied.arg.d.leverage,
                             applied.arg.o.bal.available)
        /\ applied.res.err.kind = "insufficient_margin" =>
              /\ ~MarginSuffices(SizedDecision.position_size_usd, applied.arg.d.leverage,
                                 applied.arg.o.bal.available)
              /\ ~OpenSent
              /\ OpenLeftNoTrace

\* C21's case: 6000 USDT at 60x with 100 USDT available is clamped to 5880
\* USDT, which needs 100.35 USDT, and is rejected.
C21_Witness ==
    /\ OpenReturned
    /\ applied.arg.d.position_size_usd = 600000
    /\ applied.arg.d.leverage = 60
    /\ SizedDecision.position_size_usd = 588000
    /\ applied.res.err.kind = "insufficient_margin"
    /\ ~OpenSent

\* ------------------------------ specification: opens and protection updates
\* Opens and update_stop_loss / update_take_profit decisions at 99, 100 and
\* 101 USDT (and a take-profit at 104), the price staying at 100 USDT, with
\* an adapter whose OpenLong/OpenShort, SetStopLoss or SetTakeProfit may
\* fail.

UpdateDecisions ==
    {OpenLong(980000, 1050000), OpenShort(1020000, 950000)}
    \cup {UpdateSL(x) : x \in {990000, 1000000, 1010000}}
    \cup {UpdateTP(x) : x \in {990000, 1000000, 1010000, 1040000}}

UpdateOracles ==
    Oracles({"Open", "SetStopLoss", "SetTakeProfit", "Close"}, {MdCalm}, {Bal400},
            {TRUE}, {FALSE})

UpdateApplied == HandlerApplied(UpdateDecisions, UpdateOracles)

\* close_long or close_short, so that the other side becomes the target of
\* the updates.
CloseApplied ==
    HandlerApplied({CloseLong, Dec("close_short", "BTCUSDT")}, UpdateOracles)

NextUpdate ==
    \/ UpdateApplied
    \/ CloseApplied

SpecUpdate == Init /\ [][NextUpdate]_vars

\* A handler has just returned.
HandlerReturned == applied.fn = "executeDecisionWithRecord"

\* The position the handler was about: the side an open names, or the first
\* listed position of the symbol.
HandlerKey ==
    IF applied.arg.d.action \in {"open_long", "open_short"} THEN OpenKey
    ELSE findTargetPosition(applied.arg.before.positions, applied.arg.d.symbol)

\* The map m has at k what the map n has.
SameAt(m, n, k) ==
    /\ Has(m, k) <=> Has(n, k)
    /\ Has(m, k) => m[k] = n[k]

\* The handler called op for its position with the price px.
HandlerCalled(op, px) ==
    \E i \in 1..Len(applied.res.calls) :
        /\ applied.res.calls[i].op = op
        /\ positionKey(applied.res.calls[i].symbol, applied.res.calls[i].side) = HandlerKey
        /\ applied.res.calls[i].px = px

\* The stop-loss (take-profit) the decision asks for.
AskedStop ==
    IF applied.arg.d.action = "update_stop_loss" THEN applied.arg.d.new_stop_loss
    ELSE applied.arg.d.stop_loss

AskedTakeProfit ==
    IF applied.arg.d.action = "update_take_profit" THEN applied.arg.d.new_take_profit
    ELSE applied.arg.d.take_profit

\* ---------------------------------------------------------------- C22
\* C22: PositionMeta is written only after the open order succeeded, and
\* the stop-loss (take-profit) cache entry of a key only after SetStopLoss
\* (SetTakeProfit) returned success for that price, in the open handlers and
\* in update_stop_loss / update_take_profit alike; when one of those calls
\* fails, the corresponding cache entry is left as it was.
C22_CachesOnConfirmedSuccess ==
    (/\ HandlerReturned
     /\ applied.arg.d.action \in {"open_long", "open_short", "update_stop_loss",
                                  "update_take_profit"}) =>
        \A k \in Keys :
            /\ ~SameAt(positionMeta, applied.arg.before.meta, k) =>
                  /\ OpenReturned /\ k = OpenKey /\ OpenSent
                  /\ "Open" \notin applied.arg.o.fail
            /\ ~SameAt(stopLossCache, applied.arg.before.sl, k) =>
                  /\ k = HandlerKey
                  /\ HandlerCalled("SetStopLoss", AskedStop)
                  /\ "SetStopLoss" \notin applied.arg.o.fail
                  /\ stopLossCache[k] = AskedStop
            /\ ~SameAt(takeProfitCache, applied.arg.before.tp, k) =>
                  /\ k = HandlerKey
                  /\ HandlerCalled("SetTakeProfit", AskedTakeProfit)
                  /\ "SetTakeProfit" \notin applied.arg.o.fail
                  /\ takeProfitCache[k] = AskedTakeProfit

\* C22's case: update_stop_loss to 99 on a long with its stop cached at 98;
\* the old stop orders are cancelled, SetStopLoss fails, and the cache still
\* says 98.
C22_Witness ==
    /\ HandlerReturned
    /\ applied.arg.d.action = "update_stop_loss"
    /\ applied.arg.d.new_stop_loss = 990000
    /\ "SetStopLoss" \in applied.arg.o.fail
    /\ HandlerCalled("SetStopLoss", 990000)
    /\ applied.res.err.kind = "set_stop_loss"
    /\ applied.arg.before.sl[HandlerKey] = 980000
    /\ stopLossCache[HandlerKey] = 980000

\* ---------------------------------------------------------------- C23
\* The handler called CancelStopOrders, SetStopLoss or SetTakeProfit.
ProtectionCalled ==
    \E i \in 1..Len(applied.res.calls) :
        applied.res.calls[i].op \in {"CancelStopOrders", "SetStopLoss", "SetTakeProfit"}

\* The price the decision asks for is on the wrong side of the current
\* price, or at it.
WrongDirection ==
    LET CurrentPrice == price[applied.arg.d.symbol]
        long == HandlerKey[2] = "long"
    IN  IF applied.arg.d.action = "update_stop_loss"
        THEN (IF long THEN AskedStop >= CurrentPrice ELSE AskedStop <= CurrentPrice)
        ELSE (IF long THEN AskedTakeProfit <= CurrentPrice
              ELSE AskedTakeProfit >= CurrentPrice)

\* C23: update_stop_loss calls SetStopLoss only with a price strictly below
\* the current price for a long and strictly above it for a short, and
\* update_take_profit calls SetTakeProfit only with a price strictly above
\* the current price for a long and strictly below it for a short; a decision
\* that asks otherwise is rejected before any cancel or set call and changes
\* no cache.
C23_DirectionValidation ==
    (/\ HandlerReturned
     /\ applied.arg.d.action \in {"update_stop_loss", "update_take_profit"}
     /\ HandlerKey # NoKey
     /\ WrongDirection) =>
        /\ applied.res.err.kind \in {"stop_direction", "tp_direction", "market",
                                     "get_positions"}
        /\ ~ProtectionCalled
        /\ OpenLeftNoTrace

\* C23's case: update_take_profit to 100, the current price, on a short.
C23_Witness ==
    /\ HandlerReturned
    /\ applied.arg.d.action = "update_take_profit"
    /\ HandlerKey = <<"BTCUSDT", "short">>
    /\ applied.arg.d.new_take_profit = price["BTCUSDT"]
    /\ applied.res.err.kind = "tp_direction"
    /\ ~ProtectionCalled

\* ---------------------------------------------------------------- C24
\* The quantity computation has been applied.
QuantityComputed == applied.fn = "partialCloseQuantity"

\* The cycle has just executed a partial_close decision.
PartialCloseReturned ==
    /\ lastOp.by = "cycle"
    /\ lastOp.op = "partial_close"

\* The handler sent a close order.
CloseCalled ==
    \E i \in 1..Len(lastOp.calls) : lastOp.calls[i].op \in {"CloseLong", "CloseShort"}

\* The rejections of the claim: a close_percentage outside (0, 100] is
\* rejected before any external call, and a quantity that rounds to 0 is
\* rejected without a close call.
PartialCloseRejections ==
    PartialCloseReturned =>
        /\ (lastOp.d.close_percentage <= 0 \/ lastOp.d.close_percentage > 100) =>
              /\ lastOp.err = Err("close_percentage", lastOp.d.close_percentage, 0)
              /\ lastOp.calls = <<>>
        /\ lastOp.err.kind = "quantity_too_small" => ~CloseCalled
        /\ (lastOp.err = Nil /\ lastOp.key # NoKey) =>
              ClosedQuantity =
                  partialCloseQuantity(lastOp.key[1],
                                       lastOp.before.positions[lastOp.key].qty,
                                       lastOp.d.close_percentage)

MetaQuantity(m, k) == IF Has(m, k) THEN m[k].Quantity ELSE 0

\* The venue's quantity of the key k among the positions ps (0: none).
VenueQuantity(ps, k) == IF Has(ps, k) THEN ps[k].qty ELSE 0

\* The last step closed the position k, in part or in full.
ClosedBy(k) == VenueQuantity(positions, k) < VenueQuantity(lastOp.before.positions, k)

\* C25 as stated: an entry of PositionMeta is created only by a successful
\* open with quantity > 0, its quantity is decremented by exactly the closed
\* quantity on each partial or full close, the entry being deleted as soon as
\* the remaining quantity falls below epsilon, and every existing entry has
\* quantity > 0.
C25_MetaLifecycle ==
    \A k \in Keys :
        /\ Has(positionMeta, k) => positionMeta[k].Quantity > 0
        /\ (Has(positionMeta, k) /\ ~Has(lastOp.before.meta, k)) =>
              /\ lastOp.by = "cycle"
              /\ lastOp.op \in {"open_long", "open_short"}
              /\ lastOp.err = Nil
              /\ lastOp.key = k
              /\ VenueQuantity(positions, k) > VenueQuantity(lastOp.before.positions, k)
        /\ (ClosedBy(k) /\ Has(lastOp.before.meta, k)) =>
              LET closed == VenueQuantity(lastOp.before.positions, k)
                                - VenueQuantity(positions, k)
                  remaining == lastOp.before.meta[k].Quantity - closed
              IN  IF U(remaining) < floatEpsilon THEN ~Has(positionMeta, k)
                  ELSE /\ Has(positionMeta, k)
                       /\ positionMeta[k].Quantity = remaining

\* What the code does: entries are created by successful opens only and
\* have quantity > 0, and every close that reaches handleRealizedPnL
\* decrements or deletes the entry; the monitor's emergency close reaches it
\* only when the market data gave it a price.
C25_MetaWhenRealized ==
    \A k \in Keys :
        /\ Has(positionMeta, k) => positionMeta[k].Quantity > 0
        /\ (Has(positionMeta, k) /\ ~Has(lastOp.before.meta, k)) =>
              /\ lastOp.by = "cycle"
              /\ lastOp.op \in {"open_long", "open_short"}
              /\ lastOp.err = Nil
              /\ lastOp.key = k
        /\ (ClosedBy(k) /\ Has(lastOp.before.meta, k) /\ lastOp.by = "cycle") =>
              LET closed == VenueQuantity(lastOp.before.positions, k)
                                - VenueQuantity(positions, k)
                  remaining == lastOp.before.meta[k].Quantity - closed
              IN  IF U(remaining) < floatEpsilon THEN ~Has(positionMeta, k)
                  ELSE /\ Has(positionMeta, k)
                       /\ positionMeta[k].Quantity = remaining

\* ------------------------------------- specification: closes after a restart
\* The engine is constructed on an account that holds a long of 1.0 BTC
\* entered at 100 USDT by an earlier run; the cycle closes and opens longs
\* while the market moves between 99 and 100 USDT.

MaxRestartCycles == 4

InitRestarted ==
    Constructed(Put(EmptyMap, <<"BTCUSDT", "long">>,
                    [qty |-> 1000, entry |-> 1000000, lev |-> 10]))

WRestart ==
    [batches |-> {<<OpenLong(980000, 1050000)>>, <<CloseLong>>},
     maxCycles |-> MaxRestartCycles,
     oracles |-> Oracles({"Close"}, {MdCalm}, {Bal400}, {TRUE}, {FALSE}),
     prices |-> {990000, 1000000, 1010000},
     instants |-> {0}]

NextRestart ==
    \/ CycleStart(WRestart)
    \/ ExecDecision(WRestart)
    \/ CycleEnd
    \/ PriceMove(WRestart)

SpecRestart == InitRestarted /\ [][NextRestart]_vars

\* ---------------------------------------------------------------- C26
\* The cycle has just executed a close_long or close_short with success.
FullCloseSucceeded ==
    /\ lastOp.by = "cycle"
    /\ lastOp.op \in {"close_long", "close_short"}
    /\ lastOp.err = Nil

\* The PnL of the closed position against the cached entry price, in 1e-7
\* USDT, for the quantity the venue closed.
RealizedPnL ==
    LET entryPrice == lastOp.before.meta[lastOp.key].EntryPrice
        qty == lastOp.before.positions[lastOp.key].qty
    IN  IF lastOp.key[2] = "long" THEN (price[lastOp.key[1]] - entryPrice) * qty
        ELSE (entryPrice - price[lastOp.key[1]]) * qty

\* The circuit breaker is as one update with pnl leaves it.
BreakerFedWith(pnl) ==
    /\ consecutiveLosses = updateConsecutiveLosses(lastOp.before, pnl).losses
    /\ stopUntil = updateConsecutiveLosses(lastOp.before, pnl).stopUntil

\* C26 as stated: on every successful close_long/close_short the engine
\* realizes the PnL of the closed position against the cached entry price
\* and feeds the circuit breaker: the consecutive-loss counter is updated
\* once for that close.
C26_CloseFeedsBreaker ==
    FullCloseSucceeded =>
        /\ Has(lastOp.before.meta, lastOp.key)
        /\ BreakerFedWith(RealizedPnL)

\* What the code does: the circuit breaker is fed when the closed position
\* has a PositionMeta entry.
C26_FeedsWhenCached ==
    (FullCloseSucceeded /\ Has(lastOp.before.meta, lastOp.key)) =>
        BreakerFedWith(RealizedPnL)

\* A close the circuit breaker was fed with: a long with an entry, closed at
\* a loss.
C26_Reached ==
    /\ FullCloseSucceeded
    /\ Has(lastOp.before.meta, lastOp.key)
    /\ RealizedPnL < 0
    /\ consecutiveLosses = lastOp.before.losses + 1

\* --------------------------------- specification: the stop-distance guardrail
\* ensurePositionFitsBalance for an open of 100 USDT at 10x with 400 USDT
\* available, the price at 100 USDT, stops from 96 to 103.5 USDT, and market
\* data whose long-horizon ATR14 is absent, 1, 3 or 4 USDT and whose
\* mid-horizon ATR14 is absent or 2 USDT.

DistanceMds ==
    {[MdCalm EXCEPT !.longATR = l, !.hasMid = h, !.mid.ATR14 = a] :
        l \in {0, 10000, 30000, 40000}, h \in BOOLEAN, a \in {0, 20000}}

DistanceStops ==
    {960000, 970000, 975000, 980000, 985000, 990000, 1000000, 1015000, 1020000, 1035000}

DistanceApplied ==
    \E md \in DistanceMds, sl \in DistanceStops :
        /\ applied' = [fn |-> "ensurePositionFitsBalance",
                       arg |-> [d |-> OpenLong(sl, 1050000), availableBalance |-> 40000,
                                totalEquity |-> 40000, md |-> md,
                                CurrentPrice |-> 1000000],
                       res |-> ensurePositionFitsBalance(OpenLong(sl, 1050000), 40000,
                                                         40000, md, 1000000)]
        /\ EngineIdle

NextDistance == DistanceApplied

SpecDistance == Init /\ [][NextDistance]_vars

\* ---------------------------------------------------------------- C27
\* The guardrail has run.
DistanceChecked ==
    /\ applied.fn = "ensurePositionFitsBalance"
    /\ applied.res.err.kind \in {"nil", "stop_distance"}

StopDistance == Abs(applied.arg.d.stop_loss - applied.arg.CurrentPrice)

\* The bounds that are available (0: not available), in pips.
LongBound == IF applied.arg.md.longATR > 0 THEN applied.arg.md.longATR ELSE 0

MidBound ==
    IF applied.arg.md.hasMid /\ applied.arg.md.mid.ATR14 > 0
    THEN (applied.arg.md.mid.ATR14 * 3) \div 2 ELSE 0

PriceBound == (applied.arg.CurrentPrice * 15) \div 1000

\* C27 as stated: an open is rejected exactly when |stop_loss - current
\* price| exceeds the largest of the long-horizon ATR14, 1.5 x the
\* mid-horizon ATR14 and 1.5% of the current price, over the values that are
\* available.
C27_StopDistanceLargest ==
    DistanceChecked =>
        (applied.res.err.kind = "stop_distance"
            <=> StopDistance > Max(LongBound, Max(MidBound, PriceBound)))

\* C27, amended: when the long-horizon ATR14 is available the open is
\* rejected exactly when the distance exceeds it; otherwise exactly when the
\* distance exceeds the larger of 1.5 x the mid-horizon ATR14 and 1.5% of the
\* current price.
C27_StopDistanceLongFirst ==
    DistanceChecked =>
        (applied.res.err.kind = "stop_distance"
            <=> StopDistance > (IF LongBound > 0 THEN LongBound
                                ELSE Max(MidBound, PriceBound)))

\* C27's case: a stop 2 USDT from the price with a long-horizon ATR14 of 1
\* USDT and a mid-horizon ATR14 of 2 USDT is rejected.
C27_Witness ==
    /\ DistanceChecked
    /\ StopDistance = 20000
    /\ LongBound = 10000
    /\ MidBound = 30000
    /\ applied.res.err = Err("stop_distance", 20000, 10000)

\* ------------------------------------------------------------ tightening
\* Positions whose protective stop is cached, or not cached because the
\* adapter refused it, under prices near the entry and near the stop.
MaxTightenCycles == 3

WTighten ==
    [batches |-> SeqsUpTo({OpenLong(980000, 1050000), OpenShort(1020000, 950000),
                           UpdateSL(990000)}, 1),
     maxCycles |-> MaxTightenCycles,
     oracles |-> Oracles({"SetStopLoss"}, {MdCalm}, {Bal400}, {TRUE}, {FALSE}),
     prices |-> {981000, 982000, 1000000, 1010000},
     instants |-> {0}]

NextTighten ==
    \/ CycleStart(WTighten)
    \/ ExecDecision(WTighten)
    \/ CycleEnd
    \/ PriceMove(WTighten)

SpecTighten == Init /\ [][NextTighten]_vars

\* ---------------------------------------------------------------- C28
\* The update_stop_loss decisions of the batch that auto stop tightening
\* synthesized.
AutoStops ==
    {i \in 1..Len(batch) : batch[i].auto /\ batch[i].action = "update_stop_loss"}

\* The decision source's own update_stop_loss decisions.
ExplicitStops ==
    {i \in 1..Len(batch) : ~batch[i].auto /\ batch[i].action = "update_stop_loss"}

\* newStop is strictly more protective than the cached stop of the position
\* k and on the protective side of the current price.
TightensInsidePrice(k, newStop) ==
    /\ Has(positions, k)
    /\ Has(stopLossCache, k)
    /\ stopLossCache[k] # 0
    /\ IF k[2] = "long"
       THEN stopLossCache[k] < newStop /\ newStop < price[k[1]]
       ELSE newStop < stopLossCache[k] /\ price[k[1]] < newStop

\* C28: every update_stop_loss decision synthesized by auto stop tightening
\* carries a new stop that is strictly more protective than the cached stop
\* of a position of its symbol and lies on the protective side of the
\* current price; no decision is synthesized for a symbol without such a
\* candidate or without a cached stop, nor for a symbol for which the batch
\* already has an explicit update_stop_loss.
C28_AutoStopTightens ==
    BatchBuilt =>
        \A i \in AutoStops :
            /\ \E k \in Keys :
                  k[1] = batch[i].symbol /\ TightensInsidePrice(k, batch[i].new_stop_loss)
            /\ \A j \in ExplicitStops : batch[j].symbol # batch[i].symbol
            /\ \A j \in AutoStops : batch[j].symbol = batch[i].symbol => j = i

\* C28's case: a long entered at 100 with its stop cached at 98; at 98.2
\* the first candidate falls below the cached stop and the tightening
\* synthesizes the stop halfway up the buffer, between 98 and 98.2.
C28_Witness ==
    /\ BatchBuilt
    /\ AutoStops # {}
    /\ Has(positions, <<"BTCUSDT", "long">>)
    /\ price["BTCUSDT"] = 982000
    /\ stopLossCache[<<"BTCUSDT", "long">>] = 980000
    /\ \A i \in AutoStops : batch[i].new_stop_loss \in 980001..981999

\* The tightening stays silent where the claim says so: an explicit
\* update_stop_loss is in the batch of a cycle that would have synthesized
\* one.
C28_Suppressed ==
    /\ BatchBuilt
    /\ ExplicitStops # {}
    /\ AutoStops = {}
    /\ Has(positions, <<"BTCUSDT", "long">>)
    /\ price["BTCUSDT"] < positions[<<"BTCUSDT", "long">>].entry

\* ------------------------------------ specification: the ROI/ATR ratchet
\* applyDynamicProtection's choice for a 10-contract position entered at 100
\* USDT, long or short, at 2x, 10x or 20x, marked between 94 and 106 USDT,
\* with no cached stop or one between 97 and 103 USDT, and a mid-horizon
\* ATR14 that is absent, 0.5 or 2 USDT.

RatchetMarks ==
    {940000, 960000, 970000, 980000, 990000, 995000, 999000,
     1001000, 1005000, 1010000, 1020000, 1030000, 1040000, 1060000}

RatchetStops ==
    {970000, 980000, 990000, 997000, 1000000, 1003000, 1010000, 1015000, 1020000,
     1030000}

RatchetMds ==
    {[MdCalm EXCEPT !.hasMid = FALSE], [MdCalm EXCEPT !.mid.ATR14 = 5000], MdCalm}

\* Lines 2234-2276: past the floating-gain check, the stop to dispatch.
RatchetApplied ==
    \E side \in {"long", "short"}, mark \in RatchetMarks, lev \in {2, 10, 20},
       md \in RatchetMds,
       sl \in {EmptyMap} \cup {[k \in {<<"BTCUSDT", "long">>, <<"BTCUSDT", "short">>}
                                  |-> x] : x \in RatchetStops} :
        LET key == <<"BTCUSDT", side>>
            pos == [qty |-> 10000, entry |-> 1000000, lev |-> lev, mark |-> mark]
        IN  /\ U(floatingGain(side, pos.entry, pos.mark)) > floatEpsilon
            /\ applied' = [fn |-> "applyDynamicProtection",
                           arg |-> [sl |-> sl, key |-> key, pos |-> pos, md |-> md],
                           res |-> dynamicTarget(sl, key, pos, md)]
            /\ EngineIdle

NextRatchet == RatchetApplied

SpecRatchet == Init /\ [][NextRatchet]_vars

\* ---------------------------------------------------------------- C29
\* applyDynamicProtection has dispatched a stop.
RatchetDispatched == applied.fn = "applyDynamicProtection" /\ applied.res[2]

RatchetLong == applied.arg.key[2] = "long"

RatchetGain ==
    floatingGain(applied.arg.key[2], applied.arg.pos.entry, applied.arg.pos.mark)

\* The stops the dispatched one is chosen from: the cached stop, the ATR
\* candidate and the ROI candidate, each if there is one.
RatchetCached ==
    IF Has(applied.arg.sl, applied.arg.key) THEN {applied.arg.sl[applied.arg.key]}
    ELSE {}

RatchetAtr ==
    LET c == atrStopCandidate(applied.arg.key[2], applied.arg.pos.entry,
                              applied.arg.pos.mark, RatchetGain, applied.arg.md)
    IN  IF c[2] THEN {c[1]} ELSE {}

RatchetRoi ==
    LET c == roiStopCandidate(applied.arg.key[2], applied.arg.pos.entry,
                              applied.arg.pos.mark, applied.arg.pos.lev,
                              positionRoiPct(applied.arg.key[2], applied.arg.pos.entry,
                                             applied.arg.pos.mark, applied.arg.pos.lev),
                              RatchetGain)
    IN  IF c[2] THEN {c[1]} ELSE {}

\* a is at least as protective as b: higher for a long, lower for a short.
Protects(a, b) == IF RatchetLong THEN a >= b ELSE a <= b

\* C29: the stop dispatched by applyDynamicProtection is the most protective
\* of the cached stop, the ATR candidate and the ROI candidate, is strictly
\* more protective than the cached stop, and keeps a positive buffer to the
\* mark price (long: stop < mark, short: stop > mark).
C29_RatchetMostProtective ==
    RatchetDispatched =>
        /\ applied.res[1] \in RatchetCached \cup RatchetAtr \cup RatchetRoi
        /\ \A x \in RatchetCached \cup RatchetAtr \cup RatchetRoi :
               Protects(applied.res[1], x)
        /\ \A x \in RatchetCached : applied.res[1] # x
        /\ IF RatchetLong THEN applied.res[1] < applied.arg.pos.mark
           ELSE applied.res[1] > applied.arg.pos.mark

\* C29's case: a long at 10x with its stop cached at the entry, marked at 103
\* with a mid-horizon ATR14 of 2: the ATR candidate is 101, the ROI candidate
\* 101.5, and 101.5 is dispatched.
C29_Witness ==
    /\ RatchetDispatched
    /\ RatchetCached = {1000000}
    /\ RatchetAtr = {1010000}
    /\ RatchetRoi = {1015000}
    /\ applied.arg.pos.mark = 1030000
    /\ applied.res[1] = 1015000

\* ---------------------------------------------------------------- C30
\* The step the cycle has just taken sent an open order to the venue.
CycleOpened ==
    /\ lastOp.by = "cycle"
    /\ \E i \in 1..Len(lastOp.calls) : lastOp.calls[i].op \in {"OpenLong", "OpenShort"}

\* An earlier step of the same cycle sent a close order.
ClosedEarlierInCycle ==
    \E i \in 1..(Len(calls["cycle"]) - Len(lastOp.calls)) :
        calls["cycle"][i].op \in {"CloseLong", "CloseShort"}

\* C30: while now < stop_until the orchestrator places no open_long or
\* open_short order, the remainder of a cycle in which an earlier close of
\* the same batch installed the pause included.
C30_NoOpenWhilePaused ==
    CycleOpened => ~(now < lastOp.before.stopUntil)

\* What the gate of line 412 does give: an open placed during a pause comes
\* after a close of the same cycle.
C30_PausedOpenFollowsClose ==
    (CycleOpened /\ now < lastOp.before.stopUntil) => ClosedEarlierInCycle

\* The second loss in a row is realized by the close of a batch that also
\* opens: the pause of 45 minutes is installed and the open is sent.
C30_Reached ==
    /\ CycleOpened
    /\ ClosedEarlierInCycle
    /\ consecutiveLosses = 2
    /\ lastOp.before.stopUntil = now + 45

\* ------------------------------------------ specification: loss streaks
\* A long of 1.0 BTC is opened and then closed in six parts of 30 percent of
\* what is left, within one cycle, while the price moves between 99 and 101
\* USDT from one close to the next.

MaxStreakCycles == 2

WStreak ==
    [batches |-> {<<OpenLong(970000, 1050000)>>,
                  <<PartialClose(30), PartialClose(30), PartialClose(30),
                    PartialClose(30), PartialClose(30), PartialClose(30)>>},
     maxCycles |-> MaxStreakCycles,
     oracles |-> Oracles({}, {MdCalm}, {Bal400}, {TRUE}, {FALSE}),
     prices |-> {990000, 1010000},
     instants |-> {0}]

NextStreak ==
    \/ CycleStart(WStreak)
    \/ ExecDecision(WStreak)
    \/ CycleEnd
    \/ PriceMove(WStreak)

SpecStreak == Init /\ [][NextStreak]_vars

\* ---------------------------------------------------------------- C31
\* C31: stop_until never moves to an earlier time: a later loss never
\* shortens a pause already in force.
C31_StopUntilMonotone == [][stopUntil' >= stopUntil]_vars

\* What the code does keep: every pause it installs ends after the moment
\* of the loss that installed it.
C31_PauseAheadOfNow == [][stopUntil' # stopUntil => stopUntil' > now']_vars

\* Three losses in a row have installed a pause of 24 hours; a gain has
\* restarted the streak and the next loss is the first of the new one.
C31_Reached ==
    /\ consecutiveLosses = 1
    /\ stopUntil = now + 24 * 60
    /\ lastOp.by = "cycle"
    /\ lastOp.op = "partial_close"
    /\ lastOp.before.losses = 0

\* ------------------------------------- specification: concurrent closes
\* The cycle and the monitor each realize closes of their own: a long and a
\* short of 1.0 BTC are opened at 100 USDT, the cycle closes the long and the
\* monitor's drawdown check closes the short, at 98 or 101 USDT.  Either
\* goroutine may be descheduled inside "at.consecutiveLosses++" (line 2594),
\* between its load of the counter and its store.

MaxCountCycles == 2

WCount ==
    [batches |-> {<<OpenLong(980000, 1050000), OpenShort(1020000, 950000)>>,
                  <<CloseLong>>},
     maxCycles |-> MaxCountCycles,
     oracles |-> Oracles({}, {MdCalm}, {Bal400}, {TRUE}, {FALSE}),
     prices |-> {980000, 1010000},
     instants |-> {0}]

\* What a handler leaves when it is descheduled after the load of line 2594:
\* everything it did, the counter and stopUntil excepted.
beforeStore(r) == [r EXCEPT !.losses = consecutiveLosses, !.stopUntil = stopUntil]

\* The streak after a handler that would turn a counter of 1 into probe.
streakAfter(probe) ==
    IF probe = 2 THEN streak + 1 ELSE IF probe = 0 THEN 0 ELSE streak

LoadedAt(t) ==
    [resume EXCEPT ![t] = [NoResume EXCEPT !.at = "store", !.n = consecutiveLosses]]

\* One iteration of the loop of line 566, run to its end.
ExecCounted(w) ==
    /\ pc = "exec"
    /\ idx <= Len(sorted)
    /\ pending["cycle"] = NoPending
    /\ resume["cycle"] = NoResume
    /\ \E o \in w.oracles :
         /\ Executed(sorted[idx], executeDecisionWithRecord(Cur, sorted[idx], o))
         /\ streak' = streakAfter(
                executeDecisionWithRecord([Cur EXCEPT !.losses = 1], sorted[idx], o).losses)
    /\ UNCHANGED <<isRunning, runPc, stopPc, stopMonitorCh, monitorWg, monitorPc, tickerC,
                   checksAfterStop, orders, applied, resume>>

\* One iteration of the loop of line 566 that realizes a loss, up to the load
\* of line 2594.
ExecLoaded(w) ==
    /\ pc = "exec"
    /\ idx <= Len(sorted)
    /\ pending["cycle"] = NoPending
    /\ resume["cycle"] = NoResume
    /\ \E o \in w.oracles :
         /\ executeDecisionWithRecord([Cur EXCEPT !.losses = 1], sorted[idx], o).losses = 2
         /\ Executed(sorted[idx],
                     beforeStore(executeDecisionWithRecord(Cur, sorted[idx], o)))
    /\ resume' = LoadedAt("cycle")
    /\ streak' = streak + 1
    /\ UNCHANGED <<isRunning, runPc, stopPc, stopMonitorCh, monitorWg, monitorPc, tickerC,
                   checksAfterStop, orders, applied>>

\* One iteration of the loop of line 2328, run to its end.
MonitorCounted(w) ==
    /\ mpc = "scan"
    /\ mlist # <<>>
    /\ pending["monitor"] = NoPending
    /\ resume["monitor"] = NoResume
    /\ \E o \in w.oracles :
         /\ MonitorStepped("checkPosition", Head(mlist),
                           checkOnePosition(Cur, Head(mlist), msnap[Head(mlist)], o),
                           Tail(mlist))
         /\ streak' = streakAfter(
                checkOnePosition([Cur EXCEPT !.losses = 1], Head(mlist),
                                 msnap[Head(mlist)], o).losses)
    /\ UNCHANGED <<isRunning, runPc, stopPc, stopMonitorCh, monitorWg, monitorPc, tickerC,
                   checksAfterStop, orders, applied, resume>>

\* One iteration of the loop of line 2328 whose emergency close realizes a
\* loss, up to the load of line 2594.
MonitorLoaded(w) ==
    /\ mpc = "scan"
    /\ mlist # <<>>
    /\ pending["monitor"] = NoPending
    /\ resume["monitor"] = NoResume
    /\ \E o \in w.oracles :
         /\ checkOnePosition([Cur EXCEPT !.losses = 1], Head(mlist),
                             msnap[Head(mlist)], o).losses = 2
         /\ MonitorStepped("checkPosition", Head(mlist),
                           beforeStore(checkOnePosition(Cur, Head(mlist),
                                                        msnap[Head(mlist)], o)),
                           Tail(mlist))
    /\ resume' = LoadedAt("monitor")
    /\ streak' = streak + 1
    /\ UNCHANGED <<isRunning, runPc, stopPc, stopMonitorCh, monitorWg, monitorPc, tickerC,
                   checksAfterStop, orders, applied>>

\* Lines 2594-2611 after the load: the counter is stored and the pause of the
\* new count, if it has one, is installed.
LossStored ==
    \E t \in Threads :
        /\ resume[t].at = "store"
        /\ consecutiveLosses' = resume[t].n + 1
        /\ stopUntil' = IF pauseDuration(resume[t].n + 1) > 0
                        THEN now + pauseDuration(resume[t].n + 1) ELSE stopUntil
        /\ resume' = [resume EXCEPT ![t] = NoResume]
        /\ lastOp' = Op(t, "updateConsecutiveLosses", NoDecision, NoKey, Nil)
        /\ UNCHANGED <<positions, positionMeta, stopLossCache, takeProfitCache,
                       peakPnLCache, now, price, calls, cvars, mvars, pending>>
        /\ UNCHANGED <<isRunning, runPc, stopPc, stopMonitorCh, monitorWg, monitorPc,
                       tickerC, checksAfterStop, orders, applied, streak>>

\* runCycle and checkPositionDrawdown return once their handlers have.
CycleReturn == resume["cycle"] = NoResume /\ CycleEnd

MonitorReturn == resume["monitor"] = NoResume /\ MonitorEnd

NextCount ==
    \/ CycleStart(WCount)
    \/ ExecCounted(WCount)
    \/ ExecLoaded(WCount)
    \/ CycleReturn
    \/ MonitorBegin(WCount)
    \/ MonitorCounted(WCount)
    \/ MonitorLoaded(WCount)
    \/ MonitorReturn
    \/ LossStored
    \/ PriceMove(WCount)

SpecCount == Init /\ [][NextCount]_vars

\* ---------------------------------------------------------------- C32
\* No goroutine is inside the counter's update.
CounterAtRest == \A t \in Threads : resume[t] = NoResume

\* C32: under concurrent realized closes from the orchestrator and the
\* drawdown monitor, the consecutive-loss counter equals the number of
\* realized losses since the last realized gain (no lost or duplicated
\* update).
C32_CounterMatchesStreak ==
    CounterAtRest => consecutiveLosses = streak

\* Without a goroutine descheduled inside the update the counter is exact:
\* a store that finds the counter as it loaded it leaves it equal to the
\* streak.
C32_ExactWhenUndisturbed ==
    [][(\E t \in Threads : resume[t].at = "store" /\ resume'[t] = NoResume
                           /\ resume[t].n = consecutiveLosses
                           /\ \A u \in Threads \ {t} : resume[u] = NoResume
                           /\ streak = consecutiveLosses + 1)
          => consecutiveLosses' = streak']_vars

\* Both goroutines have realized a loss, each on its own position, and the
\* counter is at rest.
C32_Reached ==
    /\ CounterAtRest
    /\ streak = 2
    /\ ~Has(positions, <<"BTCUSDT", "long">>)
    /\ ~Has(positions, <<"BTCUSDT", "short">>)

\* ------------------------------- specification: two closes of one position
\* The cycle's close_long and the monitor's emergency close meet on the long
\* the cycle opened at 100 USDT: the price reaches 101 (the peak) and falls
\* to 99.  Either goroutine may be descheduled between the adapter's close
\* and handleRealizedPnL (lines 1220-1228 and 2383-2398); the adapter
\* accepts a close whose position the other goroutine's close, still in its
\* handler, has just taken.  The batch that closes may open again.

MaxOverlapCycles == 2

WOverlap ==
    [batches |-> {<<OpenLong(980000, 1050000)>>, <<CloseLong>>,
                  <<CloseLong, OpenLong(980000, 1050000)>>},
     maxCycles |-> MaxOverlapCycles,
     oracles |-> Oracles({}, {MdCalm}, {Bal400}, {TRUE}, {FALSE}),
     prices |-> {990000, 1010000},
     instants |-> {0}]

OtherThread(t) == IF t = "cycle" THEN "monitor" ELSE "cycle"

\* The other goroutine has closed the position at key and has not yet
\* realized it.
CloseInFlight(t, key) ==
    /\ resume[OtherThread(t)].at = "handleRealizedPnL"
    /\ positionKey(resume[OtherThread(t)].symbol, resume[OtherThread(t)].side) = key

\* Lines 1201-1219 and 2374-2391: the price and the cached quantity are
\* read and the adapter closes what the venue holds of the position.
closeSent(e, symbol, side) ==
    LET key == positionKey(symbol, side)
        e1 == Call(e, "market.Get", symbol, "", 0, 0)
        e2 == Call(e1, IF side = "long" THEN "CloseLong" ELSE "CloseShort",
                   symbol, side, 0, 0)
    IN  [e2 EXCEPT !.positions = IF Has(@, key) THEN VenueClose(@, key, 0) ELSE @]

\* resume once goroutine t has closed the position at key: n = 1 marks the two
\* closes of one position, on both goroutines.
Sent(t, key, e) ==
    [u \in Threads |->
        IF u = t
        THEN [at |-> "handleRealizedPnL", symbol |-> key[1], side |-> key[2],
              qty |-> getPositionQuantity(e, key[1], key[2]), px |-> price[key[1]],
              n |-> IF CloseInFlight(t, key) /\ ~Has(positions, key) THEN 1 ELSE 0]
        ELSE IF CloseInFlight(t, key) /\ ~Has(positions, key)
             THEN [resume[u] EXCEPT !.n = 1]
             ELSE resume[u]]

\* resume once goroutine t has called handleRealizedPnL: n = 2 tells the other
\* goroutine that the position the two closed has been realized.
Realized(t) ==
    [u \in Threads |->
        IF u = t THEN NoResume
        ELSE IF resume[u].n = 1 /\ resume[t].n = 1 /\ resume[t].qty > 0
                /\ Has(positionMeta, positionKey(resume[t].symbol, resume[t].side))
             THEN [resume[u] EXCEPT !.n = 2]
             ELSE resume[u]]

\* executeCloseLongWithRecord / executeCloseShortWithRecord to the adapter's
\* return (line 1219).
CloseSent(w) ==
    /\ pc = "exec"
    /\ idx <= Len(sorted)
    /\ pending["cycle"] = NoPending
    /\ resume["cycle"] = NoResume
    /\ sorted[idx].action \in {"close_long", "close_short"}
    /\ LET side == IF sorted[idx].action = "close_long" THEN "long" ELSE "short"
           key == positionKey(sorted[idx].symbol, side)
           r == closeSent(Cur, sorted[idx].symbol, side)
       IN  /\ Has(positions, key) \/ CloseInFlight("cycle", key)
           /\ Commit(r)
           /\ calls' = [calls EXCEPT !["cycle"] = @ \o r.calls]
           /\ lastOp' = [Op("cycle", "close", sorted[idx], key, Nil) EXCEPT
                            !.calls = r.calls]
           /\ resume' = Sent("cycle", key, Cur)
    /\ UNCHANGED <<now, price, cvars, mvars, pending>>
    /\ UNCHANGED <<isRunning, runPc, stopPc, stopMonitorCh, monitorWg, monitorPc, tickerC,
                   checksAfterStop, orders, applied, streak>>

\* ... and from line 1228 to the end of the loop's iteration.
CloseRealized ==
    /\ resume["cycle"].at = "handleRealizedPnL"
    /\ Executed(sorted[idx],
                Ok(handleRealizedPnL(Cur, resume["cycle"].symbol, resume["cycle"].side,
                                     resume["cycle"].qty, resume["cycle"].px)))
    /\ resume' = Realized("cycle")
    /\ UNCHANGED <<isRunning, runPc, stopPc, stopMonitorCh, monitorWg, monitorPc, tickerC,
                   checksAfterStop, orders, applied, streak>>

\* The loop body of checkPositionDrawdown whose drawdown check fires, to the
\* adapter's return in emergencyClosePosition (line 2391).
EmergencySent(w) ==
    /\ mpc = "scan"
    /\ mlist # <<>>
    /\ pending["monitor"] = NoPending
    /\ resume["monitor"] = NoResume
    /\ LET key == Head(mlist)
           pos == msnap[key]
           leverage == IF pos.lev > 0 THEN pos.lev ELSE 10
           roi == positionRoiPct(key[2], pos.entry, pos.mark, leverage)
           e == UpdatePeakPnL(Cur, key[1], key[2], roi)
           r == closeSent(e, key[1], key[2])
       IN  /\ U(Abs(pos.qty)) >= floatEpsilon
           /\ drawdownTriggered(e.peak[key], roi, leverage)
           /\ Has(positions, key) \/ CloseInFlight("monitor", key)
           /\ Commit(r)
           /\ calls' = [calls EXCEPT !["monitor"] = @ \o r.calls]
           /\ lastOp' = [Op("monitor", "emergencyClose", NoDecision, key, Nil) EXCEPT
                            !.calls = r.calls]
           /\ resume' = Sent("monitor", key, Cur)
    /\ UNCHANGED <<now, price, cvars, mvars, pending>>
    /\ UNCHANGED <<isRunning, runPc, stopPc, stopMonitorCh, monitorWg, monitorPc, tickerC,
                   checksAfterStop, orders, applied, streak>>

\* ... and from line 2396 to the continue of line 2362.
EmergencyRealized ==
    /\ resume["monitor"].at = "handleRealizedPnL"
    /\ MonitorStepped(
           "checkPosition", Head(mlist),
           ClearPeakPnLCache(
               IF resume["monitor"].px > 0 /\ resume["monitor"].qty > 0
               THEN handleRealizedPnL(Cur, resume["monitor"].symbol,
                                      resume["monitor"].side, resume["monitor"].qty,
                                      resume["monitor"].px)
               ELSE Cur,
               resume["monitor"].symbol, resume["monitor"].side),
           Tail(mlist))
    /\ resume' = Realized("monitor")
    /\ UNCHANGED <<isRunning, runPc, stopPc, stopMonitorCh, monitorWg, monitorPc, tickerC,
                   checksAfterStop, orders, applied, streak>>

\* The handlers run without being descheduled.
ExecWhole(w) == resume["cycle"] = NoResume /\ ExecDecision(w)

MonitorWhole(w) == resume["monitor"] = NoResume /\ MonitorStep(w)

NextOverlap ==
    \/ CycleStart(WOverlap)
    \/ ExecWhole(WOverlap)
    \/ CloseSent(WOverlap)
    \/ CloseRealized
    \/ CycleReturn
    \/ MonitorBegin(WOverlap)
    \/ MonitorWhole(WOverlap)
    \/ EmergencySent(WOverlap)
    \/ EmergencyRealized
    \/ MonitorReturn
    \/ PriceMove(WOverlap)

SpecOverlap == Init /\ [][NextOverlap]_vars

\* ---------------------------------------------------------------- C33
\* Goroutine t returns from handleRealizedPnL for a position that the other
\* goroutine closed too and has realized.
RealizesAgain(t) ==
    /\ resume[t].at = "handleRealizedPnL"
    /\ resume[t].n = 2
    /\ resume'[t] = NoResume

\* C33: when the orchestrator's close and the monitor's emergency close of
\* the same position interleave and both adapter calls succeed, the cached
\* quantity of that position is realized at most once: the second call of
\* handleRealizedPnL does not update the consecutive-loss counter (nor the
\* pause it drives).
C33_RealizedOnce ==
    [][\A t \in Threads :
          RealizesAgain(t) =>
              /\ consecutiveLosses' = consecutiveLosses
              /\ stopUntil' = stopUntil]_vars

\* ... and no PositionMeta quantity is negative (nor zero).
C33_MetaQuantityPositive ==
    \A k \in DOMAIN positionMeta : positionMeta[k].Quantity > 0

\* As long as the batch has not opened the position anew in between, the
\* second call finds no PositionMeta entry and changes nothing.
C33_RealizedOnceUnlessReopened ==
    [][\A t \in Threads :
          (RealizesAgain(t)
           /\ ~Has(positionMeta, positionKey(resume[t].symbol, resume[t].side)))
          => /\ consecutiveLosses' = consecutiveLosses
             /\ stopUntil' = stopUntil
             /\ positionMeta' = positionMeta]_vars

\* Both closes of the long have succeeded and the first has been realized.
C33_Reached ==
    \E t \in Threads : resume[t].at = "handleRealizedPnL" /\ resume[t].n = 2

\* ---------------------------------------------------------------- C34
\* The last step was a close_long or close_short of the cycle, or a visit of
\* the monitor, and the venue closed the whole position k in it.
FullyClosed(k) ==
    /\ Has(lastOp.before.positions, k)
    /\ ~Has(positions, k)
    /\ \/ lastOp.by = "cycle" /\ lastOp.op \in {"close_long", "close_short"}
       \/ lastOp.by = "monitor" /\ lastOp.op = "checkPosition"

\* C34: stop-loss and take-profit cache entries never outlive their
\* position: after every successful full close of a (symbol, side) position
\* (close_long, close_short or emergency close) no stop-loss and no
\* take-profit cache entry remains for that key.
C34_CachesClearedOnClose ==
    \A k \in Keys :
        FullyClosed(k) => ~Has(stopLossCache, k) /\ ~Has(takeProfitCache, k)

\* What the code does: the entries go with the PositionMeta entry, when the
\* close reaches handleRealizedPnL with the cached quantity: a position with
\* a PositionMeta entry, closed by the cycle, or by the monitor while the
\* market data gives it a price.
C34_ClearedWhenRealized ==
    \A k \in Keys :
        (FullyClosed(k) /\ Has(lastOp.before.meta, k) /\ ~Has(positionMeta, k))
            => ~Has(stopLossCache, k) /\ ~Has(takeProfitCache, k)

\* A full close that left no entry behind.
C34_Reached ==
    \E k \in Keys :
        /\ FullyClosed(k)
        /\ Has(lastOp.before.sl, k)
        /\ ~Has(stopLossCache, k)

\* ----------------------------- specification: the venue's protective orders
\* The exchange adapter as the engine's description has it: SetStopLoss and
\* SetTakeProfit place an order for the (symbol, side) position at the given
\* price, CancelStopOrders(symbol) cancels the stop-loss and take-profit
\* orders of the symbol; a call that returns an error has done nothing.
orderCall(os, c, fail) ==
    CASE c.op \in fail -> os
      [] c.op = "CancelStopOrders" ->
            [stops |-> {x \in os.stops : x[1][1] # c.symbol},
             tps |-> {x \in os.tps : x[1][1] # c.symbol}]
      [] c.op = "SetStopLoss" ->
            [os EXCEPT !.stops = @ \cup {<<positionKey(c.symbol, c.side), c.px>>}]
      [] c.op = "SetTakeProfit" ->
            [os EXCEPT !.tps = @ \cup {<<positionKey(c.symbol, c.side), c.px>>}]
      [] OTHER -> os

\* The venue's orders after the calls cs, made in that order.
RECURSIVE ordersAfter(_, _, _)
ordersAfter(os, cs, fail) ==
    IF cs = <<>> THEN os
    ELSE ordersAfter(orderCall(os, Head(cs), fail), Tail(cs), fail)

\* Opens with a stop at 98 (102) and a target at 105 (95), and updates of the
\* stop to 99 and 99.5 and of the target to 104, the price staying at 100
\* USDT, with an adapter whose CancelStopOrders, SetStopLoss or SetTakeProfit
\* may fail.
VenueDecisions ==
    {OpenLong(980000, 1050000), OpenShort(1020000, 950000)}
    \cup {UpdateSL(x) : x \in {990000, 995000}}
    \cup {UpdateTP(x) : x \in {1040000}}

VenueOracles ==
    Oracles({"CancelStopOrders", "SetStopLoss", "SetTakeProfit"}, {MdCalm}, {Bal400},
            {TRUE}, {FALSE})

\* executeDecisionWithRecord, and what its calls leave on the venue.
VenueApplied ==
    \E d \in VenueDecisions, o \in VenueOracles :
        LET r == executeDecisionWithRecord(Cur, d, o)
        IN  /\ \A k \in DOMAIN positions : positions[k].qty < MaxStack * 1000
            /\ Commit(r)
            /\ orders' = ordersAfter(orders, r.calls, o.fail)
            /\ applied' = [fn |-> "executeDecisionWithRecord",
                           arg |-> [d |-> d, o |-> o, before |-> Cur, orders |-> orders],
                           res |-> [err |-> r.err, calls |-> r.calls]]
            /\ UNCHANGED <<now, price, calls, lastOp, cvars, mvars, pending>>
            /\ UNCHANGED <<isRunning, runPc, stopPc, stopMonitorCh, monitorWg, monitorPc,
                           tickerC, checksAfterStop, resume, streak>>

NextVenue == VenueApplied

SpecVenue == Init /\ [][NextVenue]_vars

\* ---------------------------------------------------------------- C35
\* update_stop_loss has just returned an error.
UpdateStopFailed ==
    /\ HandlerReturned
    /\ applied.arg.d.action = "update_stop_loss"
    /\ applied.res.err # Nil

\* C35: a failed update_stop_loss leaves the venue unchanged: if the handler
\* returns an error (a SetStopLoss failure after the old stop orders were
\* cancelled included), the venue still holds the stop order that was
\* active before the attempt, so a position that had a venue-side stop is
\* never left without one.
C35_FailedUpdateKeepsStop ==
    UpdateStopFailed => applied.arg.orders.stops \subseteq orders.stops

\* What the code does: the venue is as before when the handler returned
\* before reaching the venue, or when the cancellation failed as well.
C35_KeptWhenNotCancelled ==
    (/\ UpdateStopFailed
     /\ \/ ~ProtectionCalled
        \/ "CancelStopOrders" \in applied.arg.o.fail) => orders = applied.arg.orders

\* update_stop_loss failed at SetStopLoss after the cancellation, on a
\* position that had a venue-side stop.
C35_Reached ==
    /\ UpdateStopFailed
    /\ applied.res.err.kind = "set_stop_loss"
    /\ \E x \in applied.arg.orders.stops : x[1] = HandlerKey

\* ---------------------------------------------------------------- C36
\* C36: whenever a stop-loss cache entry exists for an open position, the
\* venue holds an active stop-loss order at that price: a successful
\* update_take_profit leaves the position's stop-loss order in place, and a
\* successful update_stop_loss leaves the order of the cached take-profit
\* in place.
C36_CachedStopOnVenue ==
    \A k \in Keys :
        Has(positions, k) =>
            /\ Has(stopLossCache, k) => <<k, stopLossCache[k]>> \in orders.stops
            /\ (/\ HandlerReturned
                /\ applied.arg.d.action = "update_stop_loss"
                /\ applied.res.err = Nil
                /\ Has(takeProfitCache, k)
                /\ <<k, takeProfitCache[k]>> \in applied.arg.orders.tps)
                   => <<k, takeProfitCache[k]>> \in orders.tps

\* What the code does: the order of the price a protection handler has just
\* cached is on the venue.
C36_LatestOrderOnVenue ==
    (HandlerReturned /\ applied.res.err = Nil /\ Has(positions, HandlerKey)) =>
        /\ applied.arg.d.action = "update_stop_loss"
              => <<HandlerKey, stopLossCache[HandlerKey]>> \in orders.stops
        /\ applied.arg.d.action = "update_take_profit"
              => <<HandlerKey, takeProfitCache[HandlerKey]>> \in orders.tps

\* A successful update_take_profit on a position whose cached stop was on
\* the venue.
C36_Reached ==
    /\ HandlerReturned
    /\ applied.arg.d.action = "update_take_profit"
    /\ applied.res.err = Nil
    /\ Has(applied.arg.before.sl, HandlerKey)
    /\ <<HandlerKey, applied.arg.before.sl[HandlerKey]>> \in applied.arg.orders.stops

\* ---------------------------------------------------------------- C37
\* open_long or open_short has just returned nil.
OpenSucceeded == OpenReturned /\ applied.res.err = Nil

\* C37: every open_long / open_short reported as successful leaves a
\* stop-loss cache entry for that (symbol, side) equal to the decision's
\* stop_loss, so no engine-opened position is without a recorded protective
\* stop.
C37_OpenRecordsStop ==
    OpenSucceeded =>
        /\ Has(stopLossCache, OpenKey)
        /\ stopLossCache[OpenKey] = applied.arg.d.stop_loss

\* What the code does: the entry is written when the venue took the stop.
C37_RecordedWhenStopPlaced ==
    (OpenSucceeded /\ "SetStopLoss" \notin applied.arg.o.fail) =>
        /\ Has(stopLossCache, OpenKey)
        /\ stopLossCache[OpenKey] = applied.arg.d.stop_loss

\* A successful open whose stop the venue took.
C37_Reached ==
    /\ OpenSucceeded
    /\ OpenSent
    /\ HandlerCalled("SetStopLoss", applied.arg.d.stop_loss)
    /\ "SetStopLoss" \notin applied.arg.o.fail
    /\ stopLossCache[OpenKey] = applied.arg.d.stop_loss

\* ---------------------------------------------------------------- C38
\* Run calls runCycle in this step.
CycleBegins == runPc # "check" /\ runPc' = "check"

\* C38: after Stop has returned, Run starts no further decision cycle: no
\* runCycle begins after the stop (and Run itself eventually returns).
C38_NoCycleAfterStop == [][stopPc = "returned" => ~CycleBegins]_vars

\* What the code does have: Run returns only when its loop condition has
\* read the flag Stop cleared, and begins no cycle after that.
C38_RunReturnsOnStop ==
    runPc = "returned" => stopPc # "none" /\ ~isRunning /\ pc = "idle"

\* A decision cycle is running, begun on a tick after Stop returned.
C38_Reached ==
    /\ stopPc = "returned"
    /\ runPc = "check"
    /\ pc # "idle"
    /\ callCount = 2

\* --------------------------------------- specification: the execution order
\* sortDecisionsByPriority on every batch of up to MaxSortLen decisions
\* taken from two closes, an update, two opens and a hold.

MaxSortLen == 3

SortDecisions ==
    {Dec("close_long", "BTCUSDT"), Dec("close_short", "ETHUSDT"),
     Dec("update_stop_loss", "BTCUSDT"),
     Dec("open_long", "BTCUSDT"), Dec("open_long", "ETHUSDT"),
     Dec("hold", "BTCUSDT")}

SortBatches == UNION {[1..n -> SortDecisions] : n \in 0..MaxSortLen}

SortApplied ==
    \E decisions \in SortBatches :
        /\ applied' = [fn |-> "sortDecisionsByPriority",
                       arg |-> decisions,
                       res |-> sortDecisionsByPriority(decisions)]
        /\ EngineIdle

NextSort == SortApplied

SpecSort == Init /\ [][NextSort]_vars

\* ---------------------------------------------------------------- C39
Sorted == applied.fn = "sortDecisionsByPriority"

\* The decisions of priority p in ds, in the order they have there.
OfPriority(ds, p) == SelectSeq(ds, LAMBDA d : getActionPriority(d.action) = p)

\* C39: sortDecisionsByPriority is stable: decisions of equal priority keep
\* the relative order in which the batch had them, for every input batch.
C39_SortStable ==
    Sorted => \A p \in {1, 2, 3, 4, 999} :
                  OfPriority(applied.res, p) = OfPriority(applied.arg, p)

\* What the code does have: the result is in priority order and holds the
\* decisions of the batch, each as often as the batch does.
C39_SortedPermutation ==
    Sorted =>
        /\ Len(applied.res) = Len(applied.arg)
        /\ \A i, j \in 1..Len(applied.res) :
               i < j => getActionPriority(applied.res[i].action)
                            <= getActionPriority(applied.res[j].action)
        /\ \A d \in SortDecisions :
               Cardinality({i \in 1..Len(applied.res) : applied.res[i] = d})
                   = Cardinality({i \in 1..Len(applied.arg) : applied.arg[i] = d})

\* Two opens followed by a close: the close has moved to the front.
C39_Reached ==
    /\ Sorted
    /\ applied.arg = <<Dec("open_long", "BTCUSDT"), Dec("open_long", "ETHUSDT"),
                       Dec("close_long", "BTCUSDT")>>
    /\ applied.res[1] = Dec("close_long", "BTCUSDT")

\* ------------------------------------ specification: the ATR-banded stop
\* atrStopCandidate for a long and a short entered at 100 USDT, the mark
\* price between 94 and 106 USDT in steps of 0.5, the mid-term ATR14 1 or 2
\* USDT or missing; the gain is the one applyDynamicProtection passes.

AtrMarks == {1000000 + k * 5000 : k \in -12..12}

AtrMds == {MdNoMid, MdCalm, [MdCalm EXCEPT !.mid.ATR14 = 10000]}

AtrApplied ==
    \E side \in {"long", "short"}, mark \in AtrMarks, md \in AtrMds :
        LET gain == floatingGain(side, 1000000, mark)
        IN  /\ applied' = [fn |-> "atrStopCandidate",
                           arg |-> [side |-> side, entry |-> 1000000, mark |-> mark,
                                    gain |-> gain, md |-> md],
                           res |-> atrStopCandidate(side, 1000000, mark, gain, md)]
            /\ EngineIdle

NextAtr == AtrApplied

SpecAtr == Init /\ [][NextAtr]_vars

\* ---------------------------------------------------------------- C40
\* atrStopCandidate has returned a candidate.
AtrCandidate == applied.fn = "atrStopCandidate" /\ applied.res[2]

\* The stop a is at least as protective as b for the side of the call.
AtrProtects(a, b) == IF applied.arg.side = "long" THEN a >= b ELSE a <= b

\* The candidates of the same position and ATR at the smaller gains that
\* have one.
AtrEarlier ==
    {atrStopCandidate(applied.arg.side, applied.arg.entry, m,
                      floatingGain(applied.arg.side, applied.arg.entry, m),
                      applied.arg.md)[1] :
        m \in {x \in AtrMarks :
                  LET g == floatingGain(applied.arg.side, applied.arg.entry, x)
                  IN  /\ g >= applied.arg.md.mid.ATR14
                      /\ g < applied.arg.gain}}

\* C40: for every floating gain >= 1 x ATR14 the candidate stop is at least
\* at breakeven (long: candidate >= entry, short: candidate <= entry), and
\* the candidate never becomes less protective as the gain grows across the
\* 1x, 1.5x and 2x ATR bands at a fixed entry and ATR.
C40_AtrBandsProtect ==
    AtrCandidate =>
        /\ AtrProtects(applied.res[1], applied.arg.entry)
        /\ \A c \in AtrEarlier : AtrProtects(applied.res[1], c)

\* What the code does have: below 2 x ATR14 the candidate is at breakeven
\* or better and does not fall back, and from 2 x ATR14 on it trails the
\* mark price at 2.5 x ATR14, which is at breakeven from a gain of
\* 2.5 x ATR14 on.
C40_ProtectsOutsideTrailGap ==
    AtrCandidate =>
        LET atr == applied.arg.md.mid.ATR14
            gain == applied.arg.gain
        IN  /\ (gain < 2 * atr \/ 2 * gain >= 5 * atr)
                  => AtrProtects(applied.res[1], applied.arg.entry)
            /\ gain < 2 * atr => \A c \in AtrEarlier : AtrProtects(applied.res[1], c)
            /\ gain >= 2 * atr =>
                  applied.res[1] = IF applied.arg.side = "long"
                                   THEN applied.arg.mark - (5 * atr) \div 2
                                   ELSE applied.arg.mark + (5 * atr) \div 2

\* A long 3 USDT in profit with an ATR14 of 2: the candidate is 101.
C40_Reached ==
    /\ AtrCandidate
    /\ applied.arg.side = "long"
    /\ applied.arg.md = MdCalm
    /\ applied.arg.mark = 1030000
    /\ applied.res[1] = 1010000
    /\ AtrEarlier = {1000000}

====
